---- MODULE Spec2Model ----
(***************************************************************************)
(* State-machine model of the Neural-Hand gesture pipeline:                *)
(*   src/action_controller.py  ActionController (execution sink, pointer   *)
(*                              filter, drag state machine)                *)
(*   src/gesture_recognizer.py GestureRecognizer (detectors, gate)         *)
(*   src/main.py               GestureControlApp (remap, dispatcher)       *)
(*                                                                         *)
(* Numbers.  Python floats are modelled as exact rationals <<num, den>>    *)
(* with den > 0, kept in lowest terms.  Pixel coordinates are integers.    *)
(* Time (time.time()) is an integer count of ticks of 0.05 s, so that the  *)
(* program's cooldowns 0.05 s, 0.1 s, 0.5 s and 1.0 s are 1, 2, 10 and 20  *)
(* ticks.  Landmark coordinates handed to the detectors are integers in    *)
(* units of 0.01 of the frame.  An optional value (Python None) is the     *)
(* empty tuple <<>>.                                                       *)
(***************************************************************************)
EXTENDS Integers, Sequences, FiniteSets, TLC

VARIABLES
    \* ---- ActionController (src/action_controller.py:47-79)
    emergency_stop,        \* self.emergency_stop
    is_dragging,           \* self.is_dragging
    drag_start_position,   \* self.drag_start_position: <<>> or <<x, y>>
    last_mouse_position,   \* self.last_mouse_position: <<>> or <<x, y>>
    mouse_smoothing,       \* self.mouse_smoothing, a rational
    last_action_time,      \* self.last_action_time: ActionType -> tick
    \* ---- GestureRecognizer gate (src/gesture_recognizer.py:48-53)
    last_activation_time,  \* self.last_activation_time: GestureType -> tick
    gesture_history,       \* self.gesture_history: deque(maxlen=5) of
                           \* <<gesture, confidence>>
    \* ---- GestureControlApp (src/main.py:103-128)
    control_enabled,       \* self.control_enabled
    control_zone_margin,   \* self.control_zone_margin, a rational
    gesture_count,         \* self.gesture_count
    recent_actions,        \* self.gesture_history (the recent-action list)
    last_index_pos,        \* processing_loop local last_index_pos
    scroll_start_y,        \* processing_loop local scroll_start_y
    is_running,            \* self.is_running
    loop_pc,               \* where the processing thread is: "stopped" (no
                           \* thread), "top", "frame", "check", "dispatch",
                           \* "put"
    frame_gesture,         \* processing_loop local gesture_type
    hand_tracker,          \* self.hand_tracker is set (not None)
    frame_queue,           \* self.frame_queue: queue.Queue(maxsize=2), the
                           \* queued frames oldest first, each its gesture
    earlier_thread,        \* the processing thread of the start_tracking
                           \* before the last one: where it is and its
                           \* local gesture_type
    \* ---- environment
    now,                   \* time.time() in ticks
    os_pointer,            \* pyautogui.position(): where the OS pointer is
    hand,                  \* the landmarks handed to a detector
    valid_frames,          \* the classifications of the last valid frames
                           \* handed to recognize_gesture, newest last
    \* ---- observation of the last operation
    op,                    \* name of the last operation called
    arg,                   \* its argument(s)
    ret,                   \* its return value
    issued                 \* OS primitives it issued, in order

vars == <<emergency_stop, is_dragging, drag_start_position, last_mouse_position,
          mouse_smoothing, last_action_time, last_activation_time,
          gesture_history, control_enabled, control_zone_margin, gesture_count, recent_actions,
          last_index_pos, scroll_start_y, is_running, loop_pc, frame_gesture,
          hand_tracker, frame_queue, earlier_thread,
          now, os_pointer, hand, valid_frames, op, arg, ret, issued>>

ctlVars == <<emergency_stop, is_dragging, drag_start_position,
             last_mouse_position, mouse_smoothing, last_action_time>>

recVars == <<last_activation_time, gesture_history, valid_frames>>

loopVars == <<is_running, loop_pc, frame_gesture, hand_tracker, frame_queue,
              earlier_thread>>

appVars == <<control_enabled, control_zone_margin, gesture_count,
             recent_actions, last_index_pos, scroll_start_y>>

(***************************************************************************)
(* Bounds of the model.                                                    *)
(***************************************************************************)
\* pyautogui.size() of the modelled screen
ScreenWidth == 4
ScreenHeight == 2
\* the clock starts at StartTime (time.time() is far from the epoch) and
\* is followed for MaxElapsed ticks
StartTime == 30
MaxElapsed == 13
\* normalized coordinates handed to move_mouse are k/NormGrid
NormGrid == 3
\* frames are dispatched while fewer than MaxActions actions are recorded
MaxActions == 2
\* margins and hand coordinates handed to the remap are k/ZoneGrid
ZoneGrid == 10
\* fingertips of the pinch samples lie within PinchReach (units of 0.01) of
\* the thumb tip on each axis
PinchReach == 6

(***************************************************************************)
(* Exact rational arithmetic standing for Python float arithmetic.         *)
(***************************************************************************)
Abs(i) == IF i < 0 THEN -i ELSE i

RECURSIVE GCD(_, _)
GCD(a, b) == IF b = 0 THEN a ELSE GCD(b, a % b)

\* the rational n/d (d # 0) in lowest terms with a positive denominator
Rat(n, d) ==
    LET s == IF d < 0 THEN -1 ELSE 1
        g == GCD(Abs(n), Abs(d))
    IN  <<(s * n) \div g, (s * d) \div g>>

RInt(i) == <<i, 1>>
RAdd(a, b) == Rat(a[1] * b[2] + b[1] * a[2], a[2] * b[2])
RSub(a, b) == Rat(a[1] * b[2] - b[1] * a[2], a[2] * b[2])
RMul(a, b) == Rat(a[1] * b[1], a[2] * b[2])
RDiv(a, b) == Rat(a[1] * b[2], a[2] * b[1])
RLt(a, b) == a[1] * b[2] < b[1] * a[2]
RLe(a, b) == a[1] * b[2] <= b[1] * a[2]
RAbs(a) == <<Abs(a[1]), a[2]>>
\* Python's max(a, b) and min(a, b) on numbers: the first argument wins a tie
RMax(a, b) == IF RLt(a, b) THEN b ELSE a
RMin(a, b) == IF RLt(b, a) THEN b ELSE a
\* Python's int() of a float: truncation toward zero
RTrunc(a) == IF a[1] >= 0 THEN a[1] \div a[2] ELSE -((-a[1]) \div a[2])

IMax(a, b) == IF a < b THEN b ELSE a
IMin(a, b) == IF b < a THEN b ELSE a

None == <<>>

\* what an operation returns: True, False, or nothing
Success == "success"
Failure == "failure"
NoValue == "none"

\* A Python dict is the set of its <<key, value>> items.
EmptyDict == {}
Keys(tbl) == {e[1] : e \in tbl}
\* dict.get(key, default)
Get(tbl, key, default) ==
    IF key \in Keys(tbl) THEN (CHOOSE e \in tbl : e[1] = key)[2] ELSE default
\* tbl[key] = value
Put(tbl, key, value) == {e \in tbl : e[1] # key} \cup {<<key, value>>}

(***************************************************************************)
(* ActionController  (src/action_controller.py)                            *)
(*                                                                         *)
(* Every operation is a function of the controller's current state, the    *)
(* clock and its inputs.  It yields an outcome record:                     *)
(*   st      the controller's fields after the call                        *)
(*   ret     the value returned                                            *)
(*   issued  the OS primitives that took effect, in order                  *)
(*   now     the clock after the call (time.sleep inside the call)         *)
(*   ptr     the OS pointer after the call                                 *)
(* An OS primitive may raise; fail_at = k says the k-th pyautogui call of  *)
(* the operation raises (0: none does).  A call that raises has no effect. *)
(***************************************************************************)
ActionType == {"move_mouse", "left_click", "right_click", "scroll",
               "drag_start", "drag_end", "minimize_window", "maximize_window",
               "close_window", "volume_up", "volume_down"}

\* self.action_cooldowns, in ticks of 0.05 s
action_cooldowns ==
    {<<"left_click", 2>>, <<"right_click", 2>>, <<"scroll", 1>>,
     <<"minimize_window", 20>>, <<"maximize_window", 20>>,
     <<"close_window", 20>>, <<"volume_up", 2>>, <<"volume_down", 2>>}

\* the controller's fields as one record
Ctl == [emergency_stop |-> emergency_stop,
        is_dragging |-> is_dragging,
        drag_start_position |-> drag_start_position,
        last_mouse_position |-> last_mouse_position,
        mouse_smoothing |-> mouse_smoothing,
        last_action_time |-> last_action_time]

\* the state after __init__
CtlInit == [emergency_stop |-> FALSE,
            is_dragging |-> FALSE,
            drag_start_position |-> None,
            last_mouse_position |-> None,
            mouse_smoothing |-> <<3, 10>>,
            last_action_time |-> EmptyDict]

Outcome(st, r, prims, t, p) ==
    [st |-> st, ret |-> r, issued |-> prims, now |-> t, ptr |-> p]

\* an operation that returned without doing anything
Refused(c, t, p) == Outcome(c, Failure, <<>>, t, p)

can_execute_action(c, t, action_type) ==
    IF c.emergency_stop
    THEN FALSE
    ELSE (t - Get(c.last_action_time, action_type, 0))
            > Get(action_cooldowns, action_type, 0)

\* lines 116-121: normalized coordinate to a clamped pixel
TargetPixel(normalized, size) ==
    IMax(0, IMin(RTrunc(RMul(normalized, RInt(size))), size - 1))

\* lines 126-127: int(prev + (target - prev) * (1 - self.mouse_smoothing))
SmoothPixel(prev, target, smoothing) ==
    RTrunc(RAdd(RInt(prev),
                RMul(RInt(target - prev), RSub(RInt(1), smoothing))))

\* the first move blended from the screen's origin
MoveTarget_from_origin(c, normalized_x, normalized_y) ==
    LET tx == TargetPixel(normalized_x, ScreenWidth)
        ty == TargetPixel(normalized_y, ScreenHeight)
        prev == IF c.last_mouse_position # None THEN c.last_mouse_position
                ELSE <<0, 0>>
    IN  <<SmoothPixel(prev[1], tx, c.mouse_smoothing),
          SmoothPixel(prev[2], ty, c.mouse_smoothing)>>

MoveTarget(c, normalized_x, normalized_y) ==
    LET tx == TargetPixel(normalized_x, ScreenWidth)
        ty == TargetPixel(normalized_y, ScreenHeight)
    IN  IF c.last_mouse_position # None
        THEN <<SmoothPixel(c.last_mouse_position[1], tx, c.mouse_smoothing),
               SmoothPixel(c.last_mouse_position[2], ty, c.mouse_smoothing)>>
        ELSE <<tx, ty>>

\* move_mouse behind a micro-cooldown like the clicks
move_mouse_debounced(c, t, p, normalized_x, normalized_y, fail_at) ==
    IF ~can_execute_action(c, t, "move_mouse") THEN Refused(c, t, p)
    ELSE IF fail_at = 1 THEN Refused(c, t, p)
    ELSE LET target == MoveTarget(c, normalized_x, normalized_y)
         IN  Outcome([c EXCEPT !.last_mouse_position = target,
                               !.last_action_time = Put(@, "move_mouse", t)],
                     Success, <<<<"moveTo", target[1], target[2]>>>>, t,
                     target)

move_mouse(c, t, p, normalized_x, normalized_y, fail_at) ==
    IF c.emergency_stop THEN Refused(c, t, p)
    ELSE IF fail_at = 1 THEN Refused(c, t, p)
    ELSE LET target == MoveTarget(c, normalized_x, normalized_y)
         IN  Outcome([c EXCEPT !.last_mouse_position = target], Success,
                     <<<<"moveTo", target[1], target[2]>>>>, t, target)

\* the time stamp taken before the primitive, so that a failed call keeps it
GatedPrimitive_stamps_first(c, t, p, action_type, prim, fail_at) ==
    IF ~can_execute_action(c, t, action_type) THEN Refused(c, t, p)
    ELSE IF fail_at = 1
         THEN Outcome([c EXCEPT !.last_action_time = Put(@, action_type, t)],
                      Failure, <<>>, t, p)
    ELSE Outcome([c EXCEPT !.last_action_time = Put(@, action_type, t)],
                 Success, <<prim>>, t, p)

\* left_click, right_click, scroll, close_window, adjust_volume: a cooldown
\* check, one primitive, then the time stamp
GatedPrimitive(c, t, p, action_type, prim, fail_at) ==
    IF ~can_execute_action(c, t, action_type) THEN Refused(c, t, p)
    ELSE IF fail_at = 1 THEN Refused(c, t, p)
    ELSE Outcome([c EXCEPT !.last_action_time = Put(@, action_type, t)],
                 Success, <<prim>>, t, p)

left_click(c, t, p, fail_at) ==
    GatedPrimitive(c, t, p, "left_click", <<"click">>, fail_at)

right_click(c, t, p, fail_at) ==
    GatedPrimitive(c, t, p, "right_click", <<"rightClick">>, fail_at)

scroll(c, t, p, amount, fail_at) ==
    GatedPrimitive(c, t, p, "scroll", <<"scroll", amount>>, fail_at)

close_window(c, t, p, fail_at) ==
    GatedPrimitive(c, t, p, "close_window", <<"hotkey", "alt+f4">>, fail_at)

\* adjust_volume with the two keys exchanged
adjust_volume_swapped(c, t, p, direction, fail_at) ==
    IF direction = "up"
    THEN GatedPrimitive(c, t, p, "volume_up", <<"press", "volumedown">>,
                        fail_at)
    ELSE GatedPrimitive(c, t, p, "volume_down", <<"press", "volumeup">>,
                        fail_at)

adjust_volume(c, t, p, direction, fail_at) ==
    IF direction = "up"
    THEN GatedPrimitive(c, t, p, "volume_up", <<"press", "volumeup">>, fail_at)
    ELSE GatedPrimitive(c, t, p, "volume_down", <<"press", "volumedown">>,
                        fail_at)

\* minimize_window, maximize_window: hotkey, time.sleep(0.1), press
WindowCommand(c, t, p, action_type, key, fail_at) ==
    IF ~can_execute_action(c, t, action_type) THEN Refused(c, t, p)
    ELSE IF fail_at = 1 THEN Refused(c, t, p)
    ELSE IF fail_at = 2
         THEN Outcome(c, Failure, <<<<"hotkey", "alt+space">>>>, t + 2, p)
    ELSE Outcome([c EXCEPT !.last_action_time = Put(@, action_type, t + 2)],
                 Success, <<<<"hotkey", "alt+space">>, <<"press", key>>>>,
                 t + 2, p)

minimize_window(c, t, p, fail_at) ==
    WindowCommand(c, t, p, "minimize_window", "n", fail_at)

maximize_window(c, t, p, fail_at) ==
    WindowCommand(c, t, p, "maximize_window", "x", fail_at)

\* start_drag without its is_dragging guard
start_drag_unguarded(c, t, p, fail_at) ==
    IF fail_at \in {1, 2} THEN Refused(c, t, p)
    ELSE Outcome([c EXCEPT !.is_dragging = TRUE, !.drag_start_position = p],
                 Success, <<<<"mouseDown">>>>, t, p)

start_drag(c, t, p, fail_at) ==
    IF c.is_dragging THEN Refused(c, t, p)
    ELSE IF fail_at \in {1, 2} THEN Refused(c, t, p)
    ELSE Outcome([c EXCEPT !.is_dragging = TRUE, !.drag_start_position = p],
                 Success, <<<<"mouseDown">>>>, t, p)

\* end_drag that forgets to clear the start position
end_drag_keeps_start(c, t, p, fail_at) ==
    IF ~c.is_dragging THEN Refused(c, t, p)
    ELSE IF fail_at = 1 THEN Refused(c, t, p)
    ELSE IF fail_at = 2 THEN Outcome(c, Failure, <<<<"mouseUp">>>>, t, p)
    ELSE Outcome([c EXCEPT !.is_dragging = FALSE], Success,
                 <<<<"mouseUp">>>>, t, p)

end_drag(c, t, p, fail_at) ==
    IF ~c.is_dragging THEN Refused(c, t, p)
    ELSE IF fail_at = 1 THEN Refused(c, t, p)
    ELSE IF fail_at = 2 THEN Outcome(c, Failure, <<<<"mouseUp">>>>, t, p)
    ELSE Outcome([c EXCEPT !.is_dragging = FALSE,
                           !.drag_start_position = None],
                 Success, <<<<"mouseUp">>>>, t, p)

\* set_mouse_smoothing without the clamp to [0, 1]
set_mouse_smoothing_unclamped(c, t, p, smoothing) ==
    Outcome([c EXCEPT !.mouse_smoothing = smoothing], NoValue, <<>>, t, p)

set_mouse_smoothing(c, t, p, smoothing) ==
    Outcome([c EXCEPT !.mouse_smoothing =
                         RMax(RInt(0), RMin(RInt(1), smoothing))],
            NoValue, <<>>, t, p)

enable_emergency_stop(c, t, p) ==
    Outcome([c EXCEPT !.emergency_stop = TRUE], NoValue, <<>>, t, p)

disable_emergency_stop(c, t, p) ==
    Outcome([c EXCEPT !.emergency_stop = FALSE], NoValue, <<>>, t, p)

reset(c, t, p, fail_at) ==
    LET d == IF c.is_dragging THEN end_drag(c, t, p, fail_at)
             ELSE Outcome(c, NoValue, <<>>, t, p)
    IN  Outcome([d.st EXCEPT !.last_action_time = EmptyDict,
                             !.last_mouse_position = None,
                             !.emergency_stop = FALSE],
                NoValue, d.issued, t, p)

(***************************************************************************)
(* GestureRecognizer: the activation gate                                  *)
(* (src/gesture_recognizer.py:483-509)                                     *)
(***************************************************************************)
GestureType == {"none", "index_extended", "thumb_index_pinch",
                "thumb_middle_pinch", "two_finger_scroll",
                "three_finger_close", "three_finger_spread", "closed_fist",
                "open_palm", "thumb_down", "thumb_pinky_extended"}

\* self.cooldown_time = 0.5 s, in ticks
cooldown_time == 10

\* the cooldown compared with >= instead of >
can_activate_gesture_at_cooldown(tbl, t, gesture) ==
    IF gesture = "none"
    THEN FALSE
    ELSE (t - Get(tbl, gesture, 0)) >= cooldown_time

can_activate_gesture(tbl, t, gesture) ==
    IF gesture = "none"
    THEN FALSE
    ELSE (t - Get(tbl, gesture, 0)) > cooldown_time

\* activate_gesture that restarts the cooldown of every recorded class
activate_gesture_stamps_all(tbl, t, gesture) ==
    Put({<<e[1], t>> : e \in tbl}, gesture, t)

\* activate_gesture that records nothing
activate_gesture_forgets(tbl, t, gesture) == tbl

activate_gesture(tbl, t, gesture) == Put(tbl, gesture, t)

(***************************************************************************)
(* GestureRecognizer: landmarks and detectors                              *)
(* (src/gesture_recognizer.py:58-69, 132-164)                              *)
(*                                                                         *)
(* A hand is a function from the landmark indices 0..20 to <<x, y, z>>,    *)
(* integers in units of 0.01.  np.linalg.norm of a planar difference is    *)
(* its exact square root: the sampled hands keep the squared distances     *)
(* that are measured perfect squares.                                      *)
(***************************************************************************)
WRIST == 0
THUMB_TIP == 4
INDEX_TIP == 8
MIDDLE_TIP == 12
RING_TIP == 16
PINKY_TIP == 20
INDEX_MCP == 5
MIDDLE_MCP == 9
RING_MCP == 13
PINKY_MCP == 17

\* self.pinch_threshold = 0.05
pinch_threshold == <<1, 20>>

SquaredPlanar(a, b) ==
    (a[1] - b[1]) * (a[1] - b[1]) + (a[2] - b[2]) * (a[2] - b[2])

IsSquare(q) == \E r \in 0 .. q : r * r = q
\* the root of the perfect square q, known to lie in lo .. hi
ISqrt(q, lo, hi) == CHOOSE r \in lo .. hi : r * r = q

\* np.linalg.norm(pos1 - pos2) over the x, y coordinates, in frame units;
\* the norm lies between the greater of |dx|, |dy| and their sum
PlanarDistance(a, b) ==
    LET dx == Abs(a[1] - b[1])
        dy == Abs(a[2] - b[2])
    IN  Rat(ISqrt(SquaredPlanar(a, b), IMax(dx, dy), dx + dy), 100)

\* A landmark whose coordinates are not numbers, (None, None, None):
\* np.array keeps it and arithmetic on it raises.
Corrupt == <<>>

\* the computation on the landmarks idxs raises
Raises(landmarks, idxs) == \E i \in idxs : landmarks[i] = Corrupt

\* the confidence read the wrong way round: distance / threshold
detect_pinch_uninverted(landmarks, finger1_idx, finger2_idx) ==
    IF Raises(landmarks, {finger1_idx, finger2_idx}) THEN RInt(0)
    ELSE
    LET distance == PlanarDistance(landmarks[finger1_idx],
                                   landmarks[finger2_idx])
    IN  IF RLt(distance, pinch_threshold)
        THEN RMax(RInt(0), RMin(RInt(1), RDiv(distance, pinch_threshold)))
        ELSE RInt(0)

\* lines 162-164: an exception makes the confidence 0
detect_pinch(landmarks, finger1_idx, finger2_idx) ==
    IF Raises(landmarks, {finger1_idx, finger2_idx}) THEN RInt(0)
    ELSE
    LET distance == PlanarDistance(landmarks[finger1_idx],
                                   landmarks[finger2_idx])
    IN  IF RLt(distance, pinch_threshold)
        THEN RMax(RInt(0),
                  RMin(RInt(1),
                       RSub(RInt(1), RDiv(distance, pinch_threshold))))
        ELSE RInt(0)

(***************************************************************************)
(* GestureRecognizer: finger states and the remaining detectors            *)
(* (src/gesture_recognizer.py:166-444)                                     *)
(***************************************************************************)
\* self.finger_extended_threshold = 0.6
finger_extended_threshold == <<3, 5>>

\* the 1e-6 added to the divisor of the extension ratio
RatioEpsilon == <<1, 1000000>>

\* lines 197-199: the helper catches its own exception and answers False
is_finger_extended(landmarks, tip_idx, mcp_idx) ==
    IF Raises(landmarks, {tip_idx, mcp_idx, WRIST}) THEN FALSE
    ELSE
    LET tip_to_wrist == PlanarDistance(landmarks[tip_idx], landmarks[WRIST])
        mcp_to_wrist == PlanarDistance(landmarks[mcp_idx], landmarks[WRIST])
        ratio == RDiv(tip_to_wrist, RAdd(mcp_to_wrist, RatioEpsilon))
    IN  RLt(finger_extended_threshold, ratio)

\* the list fingers_extended of _detect_closed_fist and _detect_open_palm:
\* index, middle, ring, pinky
FingersExtended(landmarks) ==
    <<is_finger_extended(landmarks, INDEX_TIP, INDEX_MCP),
      is_finger_extended(landmarks, MIDDLE_TIP, MIDDLE_MCP),
      is_finger_extended(landmarks, RING_TIP, RING_MCP),
      is_finger_extended(landmarks, PINKY_TIP, PINKY_MCP)>>

\* sum() over a list of booleans
CountTrue(flags) == Len(SelectSeq(flags, LAMBDA extended : extended))

\* the fist accepted from three closed fingers on (>= 0.75)
detect_closed_fist_three_of_four(landmarks) ==
    LET closed_count == 4 - CountTrue(FingersExtended(landmarks))
        confidence == Rat(closed_count, 4)
    IN  IF RLe(<<3, 4>>, confidence) THEN confidence ELSE RInt(0)

detect_closed_fist(landmarks) ==
    LET closed_count == 4 - CountTrue(FingersExtended(landmarks))
        confidence == Rat(closed_count, 4)
    IN  IF RLt(<<3, 4>>, confidence) THEN confidence ELSE RInt(0)

detect_open_palm(landmarks) ==
    LET extended_count == CountTrue(FingersExtended(landmarks))
        confidence == Rat(extended_count, 4)
    IN  IF RLt(<<3, 4>>, confidence) THEN confidence ELSE RInt(0)

detect_index_extended(landmarks) ==
    LET index_extended == is_finger_extended(landmarks, INDEX_TIP, INDEX_MCP)
        middle_extended ==
            is_finger_extended(landmarks, MIDDLE_TIP, MIDDLE_MCP)
        ring_extended == is_finger_extended(landmarks, RING_TIP, RING_MCP)
        pinky_extended == is_finger_extended(landmarks, PINKY_TIP, PINKY_MCP)
    IN  IF ~index_extended THEN RInt(0)
        ELSE IF ~middle_extended /\ ~ring_extended /\ ~pinky_extended
             THEN <<9, 10>>
        ELSE <<1, 2>>

detect_two_finger_scroll(landmarks) ==
    LET index_extended == is_finger_extended(landmarks, INDEX_TIP, INDEX_MCP)
        middle_extended ==
            is_finger_extended(landmarks, MIDDLE_TIP, MIDDLE_MCP)
        ring_extended == is_finger_extended(landmarks, RING_TIP, RING_MCP)
        pinky_extended == is_finger_extended(landmarks, PINKY_TIP, PINKY_MCP)
    IN  IF index_extended /\ middle_extended /\ ~ring_extended
              /\ ~pinky_extended
        THEN <<9, 10>>
        ELSE RInt(0)

detect_three_finger_close(landmarks) ==
    IF Raises(landmarks, {INDEX_TIP, MIDDLE_TIP, RING_TIP}) THEN RInt(0)
    ELSE
    LET dist_index_middle == PlanarDistance(landmarks[INDEX_TIP],
                                            landmarks[MIDDLE_TIP])
        dist_middle_ring == PlanarDistance(landmarks[MIDDLE_TIP],
                                           landmarks[RING_TIP])
        threshold == <<2, 25>>
    IN  IF RLt(dist_index_middle, threshold) /\ RLt(dist_middle_ring, threshold)
        THEN RMax(RInt(0),
                  RMin(RInt(1),
                       RSub(RInt(1),
                            RDiv(RAdd(dist_index_middle, dist_middle_ring),
                                 RMul(RInt(2), threshold)))))
        ELSE RInt(0)

detect_three_finger_spread(landmarks) ==
    LET index_extended == is_finger_extended(landmarks, INDEX_TIP, INDEX_MCP)
        middle_extended ==
            is_finger_extended(landmarks, MIDDLE_TIP, MIDDLE_MCP)
        ring_extended == is_finger_extended(landmarks, RING_TIP, RING_MCP)
        dist_index_middle == PlanarDistance(landmarks[INDEX_TIP],
                                            landmarks[MIDDLE_TIP])
        dist_middle_ring == PlanarDistance(landmarks[MIDDLE_TIP],
                                           landmarks[RING_TIP])
        min_spread == <<1, 10>>
    IN  IF ~(index_extended /\ middle_extended /\ ring_extended) THEN RInt(0)
        ELSE IF RLt(min_spread, dist_index_middle)
                    /\ RLt(min_spread, dist_middle_ring)
             THEN <<4, 5>>
        ELSE RInt(0)

\* y grows downward: the thumb tip below the wrist
detect_thumb_down(landmarks) ==
    IF Raises(landmarks, {THUMB_TIP, WRIST}) THEN RInt(0)
    ELSE
    IF landmarks[THUMB_TIP][2] > landmarks[WRIST][2]
    THEN LET distance == Rat(landmarks[THUMB_TIP][2] - landmarks[WRIST][2],
                             100)
         IN  RMin(RInt(1), RDiv(distance, <<3, 10>>))
    ELSE RInt(0)

detect_thumb_pinky_extended(landmarks) ==
    IF Raises(landmarks, {THUMB_TIP, PINKY_TIP, WRIST}) THEN RInt(0)
    ELSE
    LET thumb_dist == PlanarDistance(landmarks[THUMB_TIP], landmarks[WRIST])
        pinky_dist == PlanarDistance(landmarks[PINKY_TIP], landmarks[WRIST])
        index_extended == is_finger_extended(landmarks, INDEX_TIP, INDEX_MCP)
        middle_extended ==
            is_finger_extended(landmarks, MIDDLE_TIP, MIDDLE_MCP)
        ring_extended == is_finger_extended(landmarks, RING_TIP, RING_MCP)
    IN  IF RLt(<<3, 20>>, thumb_dist) /\ RLt(<<3, 20>>, pinky_dist)
              /\ ~index_extended /\ ~middle_extended /\ ~ring_extended
        THEN <<17, 20>>
        ELSE RInt(0)

(***************************************************************************)
(* GestureRecognizer: per-frame classification, the history window and the *)
(* stabilized output  (src/gesture_recognizer.py:56, 73-130, 446-481)      *)
(*                                                                         *)
(* A classification is <<gesture, confidence>>.                            *)
(***************************************************************************)
\* len(landmarks); landmarks None or [] count 0
LandmarkCount(landmarks) == Cardinality(DOMAIN landmarks)

\* the dict gestures of recognize_gesture as its items in insertion order
DetectAll(landmarks) ==
    << <<"thumb_index_pinch", detect_pinch(landmarks, THUMB_TIP, INDEX_TIP)>>,
       <<"thumb_middle_pinch", detect_pinch(landmarks, THUMB_TIP, MIDDLE_TIP)>>,
       <<"closed_fist", detect_closed_fist(landmarks)>>,
       <<"open_palm", detect_open_palm(landmarks)>>,
       <<"two_finger_scroll", detect_two_finger_scroll(landmarks)>>,
       <<"three_finger_close", detect_three_finger_close(landmarks)>>,
       <<"three_finger_spread", detect_three_finger_spread(landmarks)>>,
       <<"thumb_down", detect_thumb_down(landmarks)>>,
       <<"thumb_pinky_extended", detect_thumb_pinky_extended(landmarks)>>,
       <<"index_extended", detect_index_extended(landmarks)>> >>

\* max(items, key=confidence): the first item of the greatest confidence
RECURSIVE MaxFrom(_, _, _)
MaxFrom(items, i, best) ==
    IF i > Len(items) THEN best
    ELSE IF RLt(best[2], items[i][2]) THEN MaxFrom(items, i + 1, items[i])
    ELSE MaxFrom(items, i + 1, best)

MaxByConfidence(items) == MaxFrom(items, 2, items[1])

\* the threshold applied with <=: a best confidence of exactly 0.5 is dropped
ClassifyFrame_drops_half(landmarks) ==
    LET best_gesture ==
            CHOOSE best \in {MaxByConfidence(gestures) :
                                gestures \in {DetectAll(landmarks)}} : TRUE
    IN  IF RLe(best_gesture[2], <<1, 2>>) THEN <<"none", RInt(0)>>
                                          ELSE best_gesture

\* lines 111-118: the frame's own classification (the dict is built once)
ClassifyFrame(landmarks) ==
    LET best_gesture ==
            CHOOSE best \in {MaxByConfidence(gestures) :
                                gestures \in {DetectAll(landmarks)}} : TRUE
    IN  IF RLt(best_gesture[2], <<1, 2>>) THEN <<"none", RInt(0)>>
                                          ELSE best_gesture

\* deque(maxlen=5)
HistoryCapacity == 5

\* a window that drops the new entry when it is full
history_append_drops_new(history, entry) ==
    IF Len(history) >= HistoryCapacity THEN history
                                       ELSE Append(history, entry)

\* a window of one entry more than deque(maxlen=5)
history_append_six(history, entry) ==
    IF Len(history) >= HistoryCapacity + 1 THEN Append(Tail(history), entry)
                                           ELSE Append(history, entry)

\* self.gesture_history.append(...) on deque(maxlen=5)
history_append(history, entry) ==
    IF Len(history) >= HistoryCapacity THEN Append(Tail(history), entry)
                                       ELSE Append(history, entry)

RECURSIVE SumConfidence(_)
SumConfidence(entries) ==
    IF entries = <<>> THEN RInt(0)
    ELSE RAdd(entries[1][2], SumConfidence(Tail(entries)))

\* gesture_counts[gesture]: the window's entries of one class
EntriesOf(history, gesture) == SelectSeq(history, LAMBDA e : e[1] = gesture)

AvgConfidence(history, gesture) ==
    LET confidences == EntriesOf(history, gesture)
    IN  RDiv(SumConfidence(confidences), RInt(Len(confidences)))

\* score = len(confidences) * avg_confidence
GroupScore(history, gesture) ==
    RMul(RInt(Len(EntriesOf(history, gesture))),
         AvgConfidence(history, gesture))

\* the keys of gesture_counts in insertion order (first appearance)
RECURSIVE GroupOrder(_, _)
GroupOrder(history, seen) ==
    IF history = <<>> THEN <<>>
    ELSE IF history[1][1] \in seen THEN GroupOrder(Tail(history), seen)
    ELSE <<history[1][1]>>
            \o GroupOrder(Tail(history), seen \cup {history[1][1]})

\* the loop with >= for >: the last group of the greatest score is kept
RECURSIVE BestGroup_last_tie(_, _, _, _)
BestGroup_last_tie(history, order, best_gesture, best_score) ==
    IF order = <<>> THEN best_gesture
    ELSE LET score == GroupScore(history, order[1])
         IN  IF RLe(best_score, score)
             THEN BestGroup_last_tie(history, Tail(order), order[1], score)
             ELSE BestGroup_last_tie(history, Tail(order), best_gesture,
                                     best_score)

\* lines 464-473: the loop that keeps the first group of the greatest score
RECURSIVE BestGroup(_, _, _, _)
BestGroup(history, order, best_gesture, best_score) ==
    IF order = <<>> THEN best_gesture
    ELSE LET score == GroupScore(history, order[1])
         IN  IF RLt(best_score, score)
             THEN BestGroup(history, Tail(order), order[1], score)
             ELSE BestGroup(history, Tail(order), best_gesture, best_score)

\* the group of the smallest score instead of the greatest
get_smoothed_gesture_weakest(history) ==
    IF history = <<>> THEN <<"none", RInt(0)>>
    ELSE LET order == GroupOrder(history, {})
             worst == CHOOSE g \in {order[i] : i \in 1 .. Len(order)} :
                        \A i \in 1 .. Len(order) :
                            RLe(GroupScore(history, g),
                                GroupScore(history, order[i]))
         IN  <<worst, AvgConfidence(history, worst)>>

get_smoothed_gesture(history) ==
    IF history = <<>> THEN <<"none", RInt(0)>>
    ELSE LET best_gesture == BestGroup(history, GroupOrder(history, {}),
                                       "none", RInt(0))
         IN  IF EntriesOf(history, best_gesture) # <<>>
             THEN <<best_gesture, AvgConfidence(history, best_gesture)>>
             ELSE <<best_gesture, RInt(0)>>

Recognized(history, result) == [history |-> history, ret |-> result]

\* recognize_gesture without the check of the landmark count: whatever the
\* window resolves to is returned
recognize_gesture_unchecked(history, landmarks) ==
    IF LandmarkCount(landmarks) # 21
    THEN Recognized(history, get_smoothed_gesture(history))
    ELSE LET appended == history_append(history, ClassifyFrame(landmarks))
         IN  Recognized(appended, get_smoothed_gesture(appended))

recognize_gesture(history, landmarks) ==
    IF LandmarkCount(landmarks) # 21
    THEN Recognized(history, <<"none", RInt(0)>>)
    ELSE LET appended == history_append(history, ClassifyFrame(landmarks))
         IN  Recognized(appended, get_smoothed_gesture(appended))

(***************************************************************************)
(* GestureControlApp: the control-zone remap  (src/main.py:507-512,        *)
(* 714-724)                                                                *)
(***************************************************************************)
\* the divisor 1 - margin instead of 1 - 2 * margin
map_coordinate_one_margin(h, margin) ==
    RMax(RInt(0),
         RMin(RInt(1), RDiv(RSub(h, margin), RSub(RInt(1), margin))))

\* one axis of map_to_screen_coordinates
map_coordinate(h, margin) ==
    LET mapped == RDiv(RSub(h, margin),
                       RSub(RInt(1), RMul(RInt(2), margin)))
    IN  RMax(RInt(0), RMin(RInt(1), mapped))

map_to_screen_coordinates(hand_x, hand_y, margin) ==
    <<map_coordinate(hand_x, margin), map_coordinate(hand_y, margin)>>

(***************************************************************************)
(* GestureControlApp: the dispatcher  (src/main.py:726-739, 789-803,       *)
(* 822-888)                                                                *)
(*                                                                         *)
(* The dispatcher is a function of the controller, the gate's table, the   *)
(* counter, the recent-action list, the clock and the frame's inputs.  It  *)
(* yields the controller's outcome and the application's fields after it.  *)
(***************************************************************************)
\* get_cursor_position: the index fingertip's normalized (x, y)
\* (src/gesture_recognizer.py:511-529)
get_cursor_position(landmarks) ==
    <<Rat(landmarks[INDEX_TIP][1], 100), Rat(landmarks[INDEX_TIP][2], 100)>>

\* add_recent_action: time.strftime("%H:%M:%S") has whole seconds (20 ticks);
\* only the last 10 records are kept
add_recent_action(records, t, action_name) ==
    LET added == Append(records, <<t \div 20, action_name>>)
    IN  IF Len(added) > 10 THEN Tail(added) ELSE added

Dispatched(o, tbl, count, records, executed) ==
    [o |-> o, gate |-> tbl, gesture_count |-> count,
     recent_actions |-> records, executed |-> executed]

\* a gated class: check the gate, invoke the primitive, activate, count, log
GatedDispatch(o, tbl, count, records, gesture_type, action_name) ==
    Dispatched(o, activate_gesture(tbl, o.now, gesture_type), count + 1,
               add_recent_action(records, o.now, action_name), TRUE)

\* a class without a branch that presses the mouse button
NoDispatchRule_starts_drag(c, tbl, count, records, t, p) ==
    Dispatched(start_drag(c, t, p, 0), tbl, count, records, TRUE)

\* no branch of the if/elif chain matches the class: line 888
NoDispatchRule(c, tbl, count, records, t, p) ==
    Dispatched(Outcome(c, NoValue, <<>>, t, p), tbl, count, records, FALSE)

execute_gesture_action(c, tbl, count, records, margin, t, p, gesture_type, cursor_pos, scroll_start, fail_at) ==
    LET nothing == Dispatched(Outcome(c, NoValue, <<>>, t, p), tbl, count,
                              records, FALSE)
    IN  CASE gesture_type = "index_extended" ->
                LET mapped == map_to_screen_coordinates(cursor_pos[1],
                                                        cursor_pos[2], margin)
                IN  Dispatched(move_mouse(c, t, p, mapped[1], mapped[2],
                                          fail_at),
                               tbl, count, records, TRUE)
          [] gesture_type = "thumb_index_pinch" ->
                IF can_activate_gesture(tbl, t, gesture_type)
                THEN GatedDispatch(left_click(c, t, p, fail_at), tbl, count,
                                   records, gesture_type, "Left Click")
                ELSE nothing
          [] gesture_type = "thumb_middle_pinch" ->
                IF can_activate_gesture(tbl, t, gesture_type)
                THEN GatedDispatch(right_click(c, t, p, fail_at), tbl, count,
                                   records, gesture_type, "Right Click")
                ELSE nothing
          [] gesture_type = "two_finger_scroll" ->
                IF scroll_start # None
                THEN LET delta_y == RSub(cursor_pos[2], scroll_start)
                     IN  IF RLt(<<1, 50>>, RAbs(delta_y))
                         THEN Dispatched(
                                scroll(c, t, p,
                                       RTrunc(RMul(RSub(RInt(0), delta_y),
                                                   RInt(150))),
                                       fail_at),
                                tbl, count, records, TRUE)
                         ELSE nothing
                ELSE nothing
          [] gesture_type = "closed_fist" ->
                IF can_activate_gesture(tbl, t, gesture_type)
                THEN GatedDispatch(minimize_window(c, t, p, fail_at), tbl,
                                   count, records, gesture_type,
                                   "Minimize Window")
                ELSE nothing
          [] gesture_type = "open_palm" ->
                IF can_activate_gesture(tbl, t, gesture_type)
                THEN GatedDispatch(maximize_window(c, t, p, fail_at), tbl,
                                   count, records, gesture_type,
                                   "Maximize Window")
                ELSE nothing
          [] gesture_type = "thumb_pinky_extended" ->
                IF RLt(cursor_pos[2], <<2, 5>>)
                THEN LET o == adjust_volume(c, t, p, "up", fail_at)
                     IN  Dispatched(o, tbl, count,
                                    add_recent_action(records, o.now,
                                                      "Volume Up"), TRUE)
                ELSE IF RLt(<<3, 5>>, cursor_pos[2])
                THEN LET o == adjust_volume(c, t, p, "down", fail_at)
                     IN  Dispatched(o, tbl, count,
                                    add_recent_action(records, o.now,
                                                      "Volume Down"), TRUE)
                ELSE Dispatched(Outcome(c, NoValue, <<>>, t, p), tbl, count,
                                records, TRUE)
          [] OTHER -> NoDispatchRule(c, tbl, count, records, t, p)

(***************************************************************************)
(* Initial state: the objects as their constructors leave them.            *)
(***************************************************************************)
NoHand == <<>>

InitObjects ==
    /\ emergency_stop = CtlInit.emergency_stop
    /\ is_dragging = CtlInit.is_dragging
    /\ drag_start_position = CtlInit.drag_start_position
    /\ last_mouse_position = CtlInit.last_mouse_position
    /\ mouse_smoothing = CtlInit.mouse_smoothing
    /\ last_action_time = CtlInit.last_action_time
    /\ last_activation_time = EmptyDict
    /\ gesture_history = <<>>
    /\ valid_frames = <<>>
    /\ control_enabled = FALSE
    /\ control_zone_margin = <<3, 20>>
    /\ gesture_count = 0
    /\ recent_actions = <<>>
    /\ last_index_pos = None
    /\ scroll_start_y = None
    /\ now = StartTime
    /\ op = "init"
    /\ arg = <<>>
    /\ ret = NoValue
    /\ issued = <<>>

\* a thread that has returned from processing_loop, or was never started
NoThread == [pc |-> "stopped", gesture_type |-> "none"]

\* no processing thread: before start_tracking
NotTracking ==
    /\ is_running = FALSE
    /\ loop_pc = "stopped"
    /\ frame_gesture = "none"
    /\ hand_tracker = FALSE
    /\ frame_queue = <<>>
    /\ earlier_thread = NoThread

\* after start_tracking: the processing thread is about to test its loop
\* condition
Tracking ==
    /\ is_running = TRUE
    /\ loop_pc = "top"
    /\ frame_gesture = "none"
    /\ hand_tracker = TRUE
    /\ frame_queue = <<>>
    /\ earlier_thread = NoThread

Pixels == (0 .. ScreenWidth - 1) \X (0 .. ScreenHeight - 1)

\* the controller's fields, the clock and the pointer after an operation
ApplyOutcome(o) ==
    /\ emergency_stop' = o.st.emergency_stop
    /\ is_dragging' = o.st.is_dragging
    /\ drag_start_position' = o.st.drag_start_position
    /\ last_mouse_position' = o.st.last_mouse_position
    /\ mouse_smoothing' = o.st.mouse_smoothing
    /\ last_action_time' = o.st.last_action_time
    /\ now' = o.now
    /\ os_pointer' = o.ptr
    /\ ret' = o.ret
    /\ issued' = o.issued

Called(name, args) == op' = name /\ arg' = args

\* normalized coordinates a caller may pass, some outside [0, 1]
NormInputs == {Rat(k, NormGrid) : k \in -1 .. NormGrid + 1}

\* smoothing factors a caller may pass, some outside [0, 1]
SmoothingInputs == {<<-1, 2>>, <<3, 10>>, <<9, 10>>, <<3, 2>>}

(***************************************************************************)
(* Calls of the ActionController's operations.                             *)
(***************************************************************************)
MoveMouse ==
    \E nx \in NormInputs, ny \in NormInputs, fail_at \in 0 .. 1 :
        /\ Called("move_mouse", <<nx, ny, fail_at>>)
        /\ ApplyOutcome(move_mouse(Ctl, now, os_pointer, nx, ny, fail_at))
        /\ UNCHANGED <<loopVars, recVars, appVars, hand>>

SetMouseSmoothing ==
    \E smoothing \in SmoothingInputs :
        /\ Called("set_mouse_smoothing", <<smoothing>>)
        /\ ApplyOutcome(set_mouse_smoothing(Ctl, now, os_pointer, smoothing))
        /\ UNCHANGED <<loopVars, recVars, appVars, hand>>

StartDrag ==
    \E fail_at \in 0 .. 2 :
        /\ Called("start_drag", <<fail_at>>)
        /\ ApplyOutcome(start_drag(Ctl, now, os_pointer, fail_at))
        /\ UNCHANGED <<loopVars, recVars, appVars, hand>>

EndDrag ==
    \E fail_at \in 0 .. 2 :
        /\ Called("end_drag", <<fail_at>>)
        /\ ApplyOutcome(end_drag(Ctl, now, os_pointer, fail_at))
        /\ UNCHANGED <<loopVars, recVars, appVars, hand>>

EnableEmergencyStop ==
    /\ Called("enable_emergency_stop", <<>>)
    /\ ApplyOutcome(enable_emergency_stop(Ctl, now, os_pointer))
    /\ UNCHANGED <<loopVars, recVars, appVars, hand>>

DisableEmergencyStop ==
    /\ Called("disable_emergency_stop", <<>>)
    /\ ApplyOutcome(disable_emergency_stop(Ctl, now, os_pointer))
    /\ UNCHANGED <<loopVars, recVars, appVars, hand>>

Reset ==
    \E fail_at \in 0 .. 2 :
        /\ Called("reset", <<fail_at>>)
        /\ ApplyOutcome(reset(Ctl, now, os_pointer, fail_at))
        /\ UNCHANGED <<loopVars, recVars, appVars, hand>>

\* the user's physical mouse moves the OS pointer
UserMovesPointer ==
    \E p \in Pixels :
        /\ p # os_pointer
        /\ os_pointer' = p
        /\ Called("user_moves_pointer", <<>>)
        /\ ret' = NoValue
        /\ issued' = <<>>
        /\ UNCHANGED <<loopVars, ctlVars, recVars, appVars, now, hand>>

\* time passes
Tick ==
    \E dt \in {1, cooldown_time} :
        /\ now + dt <= StartTime + MaxElapsed
        /\ now' = now + dt
        /\ Called("tick", <<>>)
        /\ ret' = NoValue
        /\ issued' = <<>>
        /\ UNCHANGED <<loopVars, ctlVars, recVars, appVars, os_pointer, hand>>

(***************************************************************************)
(* Calls of the gate's operations.                                         *)
(***************************************************************************)
\* the gesture classes followed through the gate
GateGestures == {"none", "thumb_index_pinch", "closed_fist"}

CanActivateGesture ==
    \E g \in GateGestures \ {"none"} :
        /\ Called("can_activate_gesture", <<g>>)
        /\ ret' = IF can_activate_gesture(last_activation_time, now, g)
                  THEN Success ELSE Failure
        /\ issued' = <<>>
        /\ UNCHANGED <<loopVars, ctlVars, recVars, appVars, now,
                       os_pointer, hand>>

ActivateGesture ==
    \E g \in GateGestures \ {"none"} :
        /\ Called("activate_gesture", <<g>>)
        /\ last_activation_time' = activate_gesture(last_activation_time, now, g)
        /\ ret' = NoValue
        /\ issued' = <<>>
        /\ UNCHANGED <<loopVars, ctlVars, gesture_history, valid_frames, appVars, now,
                       os_pointer, hand>>

(***************************************************************************)
(* Specifications, one per component.                                      *)
(***************************************************************************)
\* the pointer filter
InitPointer == InitObjects /\ NotTracking /\ os_pointer = <<0, 0>> /\ hand = NoHand
NextPointer ==
    \/ MoveMouse
    \/ SetMouseSmoothing
    \/ Reset
    \/ EnableEmergencyStop
    \/ DisableEmergencyStop
SpecPointer == InitPointer /\ [][NextPointer]_vars

\* the drag state machine
InitDrag == InitObjects /\ NotTracking /\ os_pointer \in Pixels /\ hand = NoHand
NextDrag ==
    \/ StartDrag
    \/ EndDrag
    \/ Reset
    \/ UserMovesPointer
    \/ EnableEmergencyStop
    \/ DisableEmergencyStop
SpecDrag == InitDrag /\ [][NextDrag]_vars

\* the activation gate under the clock
InitGate == InitObjects /\ NotTracking /\ os_pointer = <<0, 0>> /\ hand = NoHand
NextGate ==
    \/ Tick
    \/ CanActivateGesture
    \/ ActivateGesture
    \/ EnableEmergencyStop
    \/ DisableEmergencyStop
SpecGate == InitGate /\ [][NextGate]_vars

(***************************************************************************)
(* The remap and the pinch detector applied to sampled inputs.             *)
(***************************************************************************)
\* margins in [0, 0.5)
MarginInputs == {Rat(k, ZoneGrid) : k \in {j \in 0 .. ZoneGrid : 2 * j < ZoneGrid}}

\* hand coordinates, some outside [0, 1]
HandCoords == {Rat(k, ZoneGrid) : k \in -1 .. ZoneGrid + 1}

\* on_zone_change: the slider sets the margin (and the settings are saved,
\* which is outside the model)
OnZoneChange ==
    \E value \in MarginInputs :
        /\ control_zone_margin' = value
        /\ Called("on_zone_change", <<value>>)
        /\ ret' = NoValue
        /\ issued' = <<>>
        /\ UNCHANGED <<loopVars, ctlVars, recVars, control_enabled,
                       gesture_count, recent_actions, last_index_pos,
                       scroll_start_y, now, os_pointer, hand>>

MapToScreenCoordinates ==
    \E hand_x \in HandCoords, hand_y \in HandCoords :
        /\ Called("map_to_screen_coordinates", <<hand_x, hand_y>>)
        /\ ret' = map_to_screen_coordinates(hand_x, hand_y,
                                            control_zone_margin)
        /\ issued' = <<>>
        /\ UNCHANGED <<loopVars, ctlVars, recVars, appVars, now,
                       os_pointer, hand>>

InitMap == InitObjects /\ NotTracking /\ os_pointer = <<0, 0>> /\ hand = NoHand
NextMap ==
    \/ OnZoneChange
    \/ MapToScreenCoordinates
SpecMap == InitMap /\ [][NextMap]_vars

\* offsets of a fingertip from the thumb tip whose length is a whole number
PinchOffsets ==
    {o \in (-PinchReach .. PinchReach) \X (-PinchReach .. PinchReach) :
        IsSquare(o[1] * o[1] + o[2] * o[2])}

\* a hand with the thumb tip at (50, 50), the index tip at offset o1 and
\* depth z, and the middle tip at offset o2
PinchHand(o1, o2, z) ==
    [i \in 0 .. 20 |->
        CASE i = INDEX_TIP -> <<50 + o1[1], 50 + o1[2], z>>
          [] i = MIDDLE_TIP -> <<50 + o2[1], 50 + o2[2], 0>>
          [] OTHER -> <<50, 50, 0>>]

PinchHands ==
    {PinchHand(o1, o2, z) : o1 \in PinchOffsets, o2 \in PinchOffsets,
                            z \in {0, -7}}

DetectPinch ==
    \E finger2_idx \in {INDEX_TIP, MIDDLE_TIP} :
        /\ Called("_detect_pinch", <<THUMB_TIP, finger2_idx>>)
        /\ ret' = detect_pinch(hand, THUMB_TIP, finger2_idx)
        /\ issued' = <<>>
        /\ UNCHANGED <<loopVars, ctlVars, recVars, appVars, now,
                       os_pointer, hand>>

InitPinch == InitObjects /\ NotTracking /\ os_pointer = <<0, 0>> /\ hand \in PinchHands
NextPinch == DetectPinch
SpecPinch == InitPinch /\ [][NextPinch]_vars

(***************************************************************************)
(* The frame pipeline from the stabilized classification onward            *)
(* (src/main.py:747-816).  What recognize_gesture returned for the frame   *)
(* and where the index fingertip is are the frame's inputs.                *)
(***************************************************************************)
\* index fingertip positions of the sampled frames, in units of 0.01
CursorSamples == {50} \X {39, 50, 61}

FrameHand(tip) ==
    [i \in 0 .. 20 |-> IF i = INDEX_TIP THEN <<tip[1], tip[2], 0>>
                                          ELSE <<50, 50, 0>>]

\* lines 791-801: the dispatch and, when it reports an action, the
\* bookkeeping of last_index_pos and scroll_start_y
DispatchFrame(gesture_type, landmarks, fail_at) ==
    LET cursor_pos == get_cursor_position(landmarks)
        d == execute_gesture_action(Ctl, last_activation_time,
                gesture_count, recent_actions, control_zone_margin,
                now, os_pointer, gesture_type, cursor_pos,
                scroll_start_y, fail_at)
    IN  /\ ApplyOutcome([d.o EXCEPT
                          !.ret = IF d.executed THEN Success ELSE Failure])
        /\ last_activation_time' = d.gate
        /\ UNCHANGED <<gesture_history, valid_frames>>
        /\ gesture_count' = d.gesture_count
        /\ recent_actions' = d.recent_actions
        /\ last_index_pos' = IF d.executed THEN cursor_pos
                                           ELSE last_index_pos
        /\ scroll_start_y' =
               IF ~d.executed THEN scroll_start_y
               ELSE IF gesture_type = "two_finger_scroll"
                    THEN (IF scroll_start_y = None THEN cursor_pos[2]
                                                   ELSE scroll_start_y)
                    ELSE None

\* lines 802-803: no dispatch, the scroll origin is forgotten
SkipFrame ==
    /\ scroll_start_y' = None
    /\ ret' = NoValue
    /\ issued' = <<>>
    /\ UNCHANGED <<ctlVars, recVars, gesture_count,
                   recent_actions, last_index_pos, now, os_pointer>>

\* lines 789-803: dispatch when control is enabled and a gesture is seen
FrameWithHand(gesture_type, landmarks, fail_at) ==
    IF control_enabled /\ gesture_type # "none"
    THEN DispatchFrame(gesture_type, landmarks, fail_at)
    ELSE SkipFrame

\* One iteration of processing_loop that found a hand, from the gesture
\* recognize_gesture returned to the bookkeeping of lines 795-803; the
\* hand-off of the frame to the UI (lines 805-816) is followed step by step
\* in SpecLoop.
\* the pyautogui calls a dispatch of the class can reach
PrimitiveCalls(gesture_type) ==
    CASE gesture_type \in {"closed_fist", "open_palm"} -> 2
      [] gesture_type \in {"index_extended", "thumb_index_pinch",
                           "thumb_middle_pinch", "two_finger_scroll",
                           "thumb_pinky_extended"} -> 1
      [] OTHER -> 0

\* the sampled fingertips for a class: all of them where the dispatch reads
\* the fingertip, one otherwise
TipsFor(gesture_type) ==
    IF gesture_type \in {"index_extended", "two_finger_scroll",
                         "thumb_pinky_extended"}
    THEN CursorSamples
    ELSE {<<50, 50>>}

ProcessFrame ==
    \E gesture_type \in GestureType :
      \E tip \in TipsFor(gesture_type),
         fail_at \in 0 .. PrimitiveCalls(gesture_type) :
        /\ gesture_count < MaxActions
        /\ Len(recent_actions) < MaxActions
        /\ Called("process_frame", <<gesture_type, tip, fail_at>>)
        /\ hand' = FrameHand(tip)
        /\ FrameWithHand(gesture_type, hand', fail_at)
        /\ UNCHANGED <<loopVars, control_enabled, control_zone_margin>>

\* a frame without a hand that is entered into the recognizer's window as a
\* none classification
ProcessEmptyFrame_votes_none ==
    /\ Called("process_frame", <<"none", <<>>, 0>>)
    /\ hand' = NoHand
    /\ ret' = NoValue
    /\ issued' = <<>>
    /\ gesture_history' =
          IF Len(gesture_history) < 5
          THEN Append(gesture_history, <<"none", RInt(0)>>)
          ELSE Append(Tail(gesture_history), <<"none", RInt(0)>>)
    /\ UNCHANGED <<loopVars, ctlVars, last_activation_time, valid_frames,
                   appVars, now, os_pointer>>

\* one iteration of processing_loop without a frame or without a hand:
\* lines 750-751 and 763-774 leave the dispatcher's state alone (the
\* hand-off of the frame to the UI is followed in SpecLoop)
ProcessEmptyFrame ==
    /\ Called("process_frame", <<"none", <<>>, 0>>)
    /\ hand' = NoHand
    /\ ret' = NoValue
    /\ issued' = <<>>
    /\ UNCHANGED <<loopVars, ctlVars, recVars, appVars, now, os_pointer>>

\* toggle_control (src/main.py:615-626); its button is enabled only while
\* tracking runs (lines 570, 602)
ToggleControl ==
    /\ is_running
    /\ control_enabled' = ~control_enabled
    /\ Called("toggle_control", <<>>)
    /\ ret' = NoValue
    /\ issued' = <<>>
    /\ UNCHANGED <<loopVars, ctlVars, recVars, control_zone_margin,
                   gesture_count, recent_actions, last_index_pos,
                   scroll_start_y, now, os_pointer, hand>>

\* tracking has been started and the processing thread is at the top of its
\* loop
InitApp == InitObjects /\ Tracking /\ os_pointer = <<0, 0>> /\ hand = NoHand
NextApp ==
    \/ ProcessFrame
    \/ ProcessEmptyFrame
    \/ ToggleControl
    \/ EnableEmergencyStop
    \/ DisableEmergencyStop
SpecApp == InitApp /\ [][NextApp]_vars

(***************************************************************************)
(* The detectors and the recognizer applied to sampled hands.              *)
(*                                                                         *)
(* A sampled hand has its landmarks on the vertical line x = 0.50, the     *)
(* wrist at y = 0.70 and each landmark at its reach above the wrist (a     *)
(* negative reach is below it), so that every distance the detectors       *)
(* measure is a whole number of hundredths.  The four knuckles (MCP) are   *)
(* at reach 30: a fingertip counts as extended from reach 19 on, while at  *)
(* reach 18 the ratio 0.18 / (0.30 + 1e-6) is still below 0.6.             *)
(***************************************************************************)
LineHand(thumb, index, middle, ring, pinky) ==
    [i \in 0 .. 20 |->
        LET reach == CASE i = WRIST -> 0
                       [] i = THUMB_TIP -> thumb
                       [] i = INDEX_TIP -> index
                       [] i = MIDDLE_TIP -> middle
                       [] i = RING_TIP -> ring
                       [] i = PINKY_TIP -> pinky
                       [] i \in {INDEX_MCP, MIDDLE_MCP, RING_MCP, PINKY_MCP}
                            -> 30
                       [] OTHER -> 15
        IN  <<50, 70 - reach, 0>>]

\* fingertip reaches: closed, the last reach not extended, the first reach
\* extended, extended
FingerReaches == {10, 18, 19, 40}

FingerHands ==
    {LineHand(35, i, m, r, p) : i \in FingerReaches, m \in FingerReaches,
                                r \in FingerReaches, p \in FingerReaches}

DetectClosedFist ==
    /\ Called("_detect_closed_fist", <<>>)
    /\ ret' = detect_closed_fist(hand)
    /\ issued' = <<>>
    /\ UNCHANGED <<loopVars, ctlVars, recVars, appVars, now, os_pointer, hand>>

DetectOpenPalm ==
    /\ Called("_detect_open_palm", <<>>)
    /\ ret' = detect_open_palm(hand)
    /\ issued' = <<>>
    /\ UNCHANGED <<loopVars, ctlVars, recVars, appVars, now, os_pointer, hand>>

InitFingers == InitObjects /\ NotTracking /\ os_pointer = <<0, 0>> /\ hand \in FingerHands
NextFingers ==
    \/ DetectClosedFist
    \/ DetectOpenPalm
SpecFingers == InitFingers /\ [][NextFingers]_vars

\* index alone extended: index_extended at 0.9
PointHand == LineHand(20, 40, 10, 10, 10)
\* index and ring extended, the thumb tip 0.01 from the index tip:
\* thumb_index_pinch at 0.8
PinchNearHand == LineHand(39, 40, 10, 52, 10)
\* the same with the thumb tip 0.02 from the index tip: thumb_index_pinch
\* at 0.6
PinchFarHand == LineHand(38, 40, 10, 52, 10)
\* the middle finger alone extended: no detector reaches 0.5
MiddleHand == LineHand(20, 10, 40, 10, 10)

ValidFrames == {PointHand, PinchNearHand, PinchFarHand, MiddleHand}

\* landmark sequences of 0, 20 and 22 entries
InvalidFrames ==
    {NoHand, [i \in 0 .. 19 |-> PointHand[i]],
     [i \in 0 .. 21 |-> IF i <= 20 THEN PointHand[i] ELSE <<50, 50, 0>>]}

\* the classifications of the last HistoryCapacity valid frames
LastValidFrames(frames, entry) ==
    LET all == Append(frames, entry)
        first == IMax(1, Len(all) - HistoryCapacity + 1)
    IN  SubSeq(all, first, Len(all))

RecognizeGesture ==
    \E landmarks \in ValidFrames \cup InvalidFrames :
        LET r == recognize_gesture(gesture_history, landmarks)
        IN  /\ Called("recognize_gesture", <<>>)
            /\ hand' = landmarks
            /\ gesture_history' = r.history
            /\ ret' = r.ret
            /\ valid_frames' =
                  IF LandmarkCount(landmarks) = 21
                  THEN LastValidFrames(valid_frames, ClassifyFrame(landmarks))
                  ELSE valid_frames
            /\ issued' = <<>>
            /\ UNCHANGED <<loopVars, ctlVars, last_activation_time, appVars, now,
                           os_pointer>>

\* all four fingers extended: open_palm at 1.0
OpenHand == LineHand(35, 40, 40, 40, 40)

\* the hand with landmark i corrupt (none for i = -1)
CorruptAt(landmarks, i) ==
    [k \in 0 .. 20 |-> IF k = i THEN Corrupt ELSE landmarks[k]]

\* the landmarks sampled corrupt, and -1 for a sound hand
CorruptSamples == {-1, WRIST, THUMB_TIP, INDEX_TIP, INDEX_MCP, RING_MCP,
                   PINKY_TIP}

FaultHands ==
    {CorruptAt(h, i) : h \in {OpenHand, PointHand, PinchNearHand, MiddleHand},
                       i \in CorruptSamples}

\* recognize_gesture on the hand at hand
RecognizeHand ==
    LET r == recognize_gesture(gesture_history, hand)
    IN  /\ Called("recognize_gesture", <<>>)
        /\ gesture_history' = r.history
        /\ ret' = r.ret
        /\ valid_frames' = LastValidFrames(valid_frames, ClassifyFrame(hand))
        /\ issued' = <<>>
        /\ UNCHANGED <<loopVars, ctlVars, last_activation_time, appVars, now,
                       os_pointer, hand>>

\* index and ring extended, the thumb away from both: index_extended at
\* 0.5, the greatest confidence of the frame
HalfHand == LineHand(20, 40, 10, 52, 10)
\* the middle finger alone extended, the thumb tip 0.03 from the index tip:
\* thumb_index_pinch at 0.4 is the greatest confidence of the frame
WeakPinchHand == LineHand(15, 18, 40, 10, 10)

\* the hands whose frames are classified one by one
FrameSamples == FingerHands \cup {HalfHand, WeakPinchHand, PinchNearHand,
                                  PinchFarHand}

\* the recognizer on frames of one hand
InitFrame == InitObjects /\ NotTracking /\ os_pointer = <<0, 0>> /\ hand \in FrameSamples
NextFrame == RecognizeHand
SpecFrame == InitFrame /\ [][NextFrame]_vars

\* the detectors and the recognizer on hands with a corrupt landmark
InitFault == InitObjects /\ NotTracking /\ os_pointer = <<0, 0>> /\ hand \in FaultHands
NextFault ==
    \/ DetectPinch
    \/ DetectClosedFist
    \/ DetectOpenPalm
    \/ RecognizeHand
SpecFault == InitFault /\ [][NextFault]_vars

InitRecognizer == InitObjects /\ NotTracking /\ os_pointer = <<0, 0>> /\ hand = NoHand
NextRecognizer == RecognizeGesture
SpecRecognizer == InitRecognizer /\ [][NextRecognizer]_vars

\* index and middle extended: two_finger_scroll at 0.9
ScrollHand == LineHand(20, 40, 40, 10, 10)
\* every fingertip and the thumb tip in one point: both pinches,
\* closed_fist and three_finger_close at 1.0
ClenchedHand == LineHand(10, 10, 10, 10, 10)
\* the same with the thumb away: closed_fist and three_finger_close at 1.0
FistHand == LineHand(35, 10, 10, 10, 10)

\* frames whose classes tie, in the frame and in the window
TieFrames == {PointHand, ScrollHand, ClenchedHand, FistHand, MiddleHand}

RecognizeTiedFrame ==
    \E landmarks \in TieFrames :
        LET r == recognize_gesture(gesture_history, landmarks)
        IN  /\ Called("recognize_gesture", <<>>)
            /\ hand' = landmarks
            /\ gesture_history' = r.history
            /\ ret' = r.ret
            /\ valid_frames' =
                  LastValidFrames(valid_frames, ClassifyFrame(landmarks))
            /\ issued' = <<>>
            /\ UNCHANGED <<loopVars, ctlVars, last_activation_time, appVars, now,
                           os_pointer>>

\* the recognizer on frames whose classes tie
InitTie == InitObjects /\ NotTracking /\ os_pointer = <<0, 0>> /\ hand = NoHand
NextTie == RecognizeTiedFrame
SpecTie == InitTie /\ [][NextTie]_vars

\* the recognizer fed by a loop that also sees frames without a hand
InitGap == InitObjects /\ NotTracking /\ os_pointer = <<0, 0>> /\ hand = NoHand
NextGap ==
    \/ RecognizeGesture
    \/ ProcessEmptyFrame
SpecGap == InitGap /\ [][NextGap]_vars

(***************************************************************************)
(* The processing thread step by step, interleaved with the UI thread      *)
(* (src/main.py:552-626, 741-820).  Nothing makes an iteration of the loop *)
(* atomic: the UI thread's handlers may run between any two of its steps.  *)
(* Here a later start_tracking is followed once the earlier thread has     *)
(* exited; SpecThreads follows the other case.                             *)
(***************************************************************************)
\* the classes recognize_gesture returns in the followed iterations
LoopGestures == {"none", "thumb_index_pinch", "thumb_middle_pinch"}

\* queue.Queue(maxsize=2)
FrameQueueMaxsize == 2

\* what a loop step reports when an exception sent it to line 818
Aborted == "aborted"

\* put_nowait with the queue.Full of a full queue caught and passed
\* (lines 766-773, 808-816)
queue_put_evicts_oldest(queue, item) ==
    IF Len(queue) >= FrameQueueMaxsize
    THEN [queue |-> Append(Tail(queue), item), ret |-> Success]
    ELSE [queue |-> Append(queue, item), ret |-> Success]

queue_put_nowait(queue, item) ==
    IF Len(queue) >= FrameQueueMaxsize
    THEN [queue |-> queue, ret |-> Failure]
    ELSE [queue |-> Append(queue, item), ret |-> Success]

\* get_nowait with the queue.Empty of an empty queue caught and passed
\* (lines 895-896, 948-949)
queue_get_nowait(queue) ==
    IF queue = <<>>
    THEN [queue |-> queue, ret |-> NoValue]
    ELSE [queue |-> Tail(queue), ret |-> Head(queue)]

\* start_tracking: returns at once when running; else makes a tracker and
\* returns when it does not start; else resets the counters, starts the
\* thread and runs update_ui once
StartTracking ==
    \E tracker_started \in BOOLEAN :
        /\ loop_pc = "stopped"
        /\ Called("start_tracking", <<tracker_started>>)
        /\ ret' = NoValue
        /\ issued' = <<>>
        /\ hand_tracker' = IF is_running THEN hand_tracker ELSE TRUE
        /\ IF ~is_running /\ tracker_started
           THEN /\ is_running' = TRUE
                /\ gesture_count' = 0
                /\ recent_actions' = <<>>
                /\ loop_pc' = "top"
                /\ last_index_pos' = None
                /\ scroll_start_y' = None
                /\ frame_queue' = queue_get_nowait(frame_queue).queue
           ELSE UNCHANGED <<is_running, gesture_count, recent_actions,
                            loop_pc, last_index_pos, scroll_start_y,
                            frame_queue>>
        /\ UNCHANGED <<ctlVars, recVars, control_enabled, control_zone_margin,
                       frame_gesture, earlier_thread, now, os_pointer, hand>>

\* stop_tracking: clears the flags, stops the tracker and drops it
StopTracking ==
    /\ Called("stop_tracking", <<>>)
    /\ ret' = NoValue
    /\ issued' = <<>>
    /\ IF is_running
       THEN /\ is_running' = FALSE
            /\ control_enabled' = FALSE
            /\ hand_tracker' = FALSE
       ELSE UNCHANGED <<is_running, control_enabled, hand_tracker>>
    /\ UNCHANGED <<ctlVars, recVars, control_zone_margin, gesture_count,
                   recent_actions, last_index_pos, scroll_start_y, loop_pc,
                   frame_gesture, frame_queue, earlier_thread, now,
                   os_pointer, hand>>

\* update_ui: returns at once when not running; else takes the oldest
\* queued frame, if there is one, and shows it
UpdateUi ==
    /\ Called("update_ui", <<>>)
    /\ issued' = <<>>
    /\ IF is_running
       THEN LET got == queue_get_nowait(frame_queue)
            IN  frame_queue' = got.queue /\ ret' = got.ret
       ELSE frame_queue' = frame_queue /\ ret' = NoValue
    /\ UNCHANGED <<ctlVars, recVars, appVars, is_running, loop_pc,
                   frame_gesture, hand_tracker, earlier_thread, now,
                   os_pointer, hand>>

\* a loop that never tests its condition
LoopTop_unconditional ==
    /\ loop_pc = "top"
    /\ loop_pc' = "frame"
    /\ Called("loop_top", <<>>)
    /\ ret' = NoValue
    /\ issued' = <<>>
    /\ UNCHANGED <<ctlVars, recVars, appVars, is_running, frame_gesture,
                   hand_tracker, frame_queue, earlier_thread, now,
                   os_pointer, hand>>

\* line 747: the loop condition
LoopTop ==
    /\ loop_pc = "top"
    /\ loop_pc' = IF is_running /\ hand_tracker THEN "frame" ELSE "stopped"
    /\ Called("loop_top", <<>>)
    /\ ret' = NoValue
    /\ issued' = <<>>
    /\ UNCHANGED <<ctlVars, recVars, appVars, is_running, frame_gesture,
                   hand_tracker, frame_queue, earlier_thread, now,
                   os_pointer, hand>>

\* lines 749-787: the tracker's frame and hand, and what recognize_gesture
\* returned for the hand; no frame continues the loop, no hand goes to the
\* hand-off of the frame.  self.hand_tracker being None raises at line 749
\* and the handler of line 818 continues the loop.
LoopRecognize ==
    /\ loop_pc = "frame"
    /\ Called("loop_recognize", <<>>)
    /\ issued' = <<>>
    /\ IF ~hand_tracker
       THEN /\ ret' = Aborted
            /\ loop_pc' = "top"
            /\ UNCHANGED <<hand, frame_gesture>>
       ELSE /\ ret' = NoValue
            /\ \/ /\ hand' = NoHand
                  /\ frame_gesture' = "none"
                  /\ loop_pc' \in {"top", "put"}
               \/ \E gesture_type \in LoopGestures :
                     /\ hand' = FrameHand(<<50, 50>>)
                     /\ frame_gesture' = gesture_type
                     /\ loop_pc' = "check"
    /\ UNCHANGED <<ctlVars, recVars, appVars, is_running, hand_tracker,
                   frame_queue, earlier_thread, now, os_pointer>>

\* line 790: the test of control_enabled and of the gesture; lines 802-803
\* when it fails
LoopCheck ==
    /\ loop_pc = "check"
    /\ Called("loop_check", <<>>)
    /\ IF control_enabled /\ frame_gesture # "none"
       THEN /\ loop_pc' = "dispatch"
            /\ ret' = NoValue
            /\ issued' = <<>>
            /\ UNCHANGED <<ctlVars, recVars, gesture_count, recent_actions,
                           last_index_pos, scroll_start_y, now, os_pointer>>
       ELSE /\ loop_pc' = "put"
            /\ SkipFrame
    /\ UNCHANGED <<control_enabled, control_zone_margin, is_running,
                   frame_gesture, hand_tracker, frame_queue, earlier_thread,
                   hand>>

\* lines 791-801: the dispatch of the gesture tested at line 790
LoopDispatch ==
    /\ loop_pc = "dispatch"
    /\ loop_pc' = "put"
    /\ Called("loop_dispatch", <<frame_gesture>>)
    /\ DispatchFrame(frame_gesture, hand, 0)
    /\ UNCHANGED <<control_enabled, control_zone_margin, is_running,
                   frame_gesture, hand_tracker, frame_queue, earlier_thread,
                   hand>>

\* lines 764-774 and 805-816: the tracker's frame rate, then the hand-off
\* of the frame to the UI.  self.hand_tracker being None raises at line
\* 764 or 805, before the put.
LoopPut ==
    /\ loop_pc = "put"
    /\ loop_pc' = "top"
    /\ Called("loop_put", <<frame_gesture>>)
    /\ issued' = <<>>
    /\ IF ~hand_tracker
       THEN ret' = Aborted /\ frame_queue' = frame_queue
       ELSE LET put == queue_put_nowait(frame_queue, frame_gesture)
            IN  frame_queue' = put.queue /\ ret' = put.ret
    /\ UNCHANGED <<ctlVars, recVars, appVars, is_running, frame_gesture,
                   hand_tracker, earlier_thread, now, os_pointer, hand>>

InitLoop == InitObjects /\ NotTracking /\ os_pointer = <<0, 0>> /\ hand = NoHand
NextLoop ==
    \/ StartTracking
    \/ StopTracking
    \/ ToggleControl
    \/ UpdateUi
    \/ LoopTop
    \/ LoopRecognize
    \/ LoopCheck
    \/ LoopDispatch
    \/ LoopPut
SpecLoop == InitLoop /\ [][NextLoop]_vars

\* the processing thread is scheduled again and again, and each of its
\* calls returns: every step of the loop that stays possible is taken
LoopFairness ==
    /\ WF_vars(LoopTop)
    /\ WF_vars(LoopRecognize)
    /\ WF_vars(LoopCheck)
    /\ WF_vars(LoopDispatch)
    /\ WF_vars(LoopPut)
SpecLoopLive == InitLoop /\ [][NextLoop]_vars /\ LoopFairness

(***************************************************************************)
(* Two processing threads  (src/main.py:552-613, 741-820).  stop_tracking  *)
(* returns without waiting for the thread, and start_tracking starts a     *)
(* new one whenever is_running is false: the thread of the earlier start   *)
(* may still be inside an iteration.  Both threads run processing_loop on  *)
(* the same objects; earlier_thread is the older one.  Only frames         *)
(* without a scroll gesture are followed, so the older thread's            *)
(* scroll_start_y is None throughout.                                      *)
(***************************************************************************)
\* start_tracking while the thread of the earlier start has not returned
RestartTracking ==
    \E tracker_started \in BOOLEAN :
        /\ loop_pc # "stopped"
        /\ earlier_thread = NoThread
        /\ Called("start_tracking", <<tracker_started>>)
        /\ ret' = NoValue
        /\ issued' = <<>>
        /\ hand_tracker' = IF is_running THEN hand_tracker ELSE TRUE
        /\ IF ~is_running /\ tracker_started
           THEN /\ is_running' = TRUE
                /\ gesture_count' = 0
                /\ recent_actions' = <<>>
                /\ earlier_thread' = [pc |-> loop_pc,
                                      gesture_type |-> frame_gesture]
                /\ loop_pc' = "top"
                /\ frame_gesture' = "none"
                /\ last_index_pos' = None
                /\ scroll_start_y' = None
                /\ frame_queue' = queue_get_nowait(frame_queue).queue
           ELSE UNCHANGED <<is_running, gesture_count, recent_actions,
                            loop_pc, frame_gesture, last_index_pos,
                            scroll_start_y, frame_queue, earlier_thread>>
        /\ UNCHANGED <<ctlVars, recVars, control_enabled, control_zone_margin,
                       now, os_pointer, hand>>

\* line 747 in the older thread
EarlierLoopTop ==
    /\ earlier_thread.pc = "top"
    /\ earlier_thread' =
          IF is_running /\ hand_tracker
          THEN [earlier_thread EXCEPT !.pc = "frame"]
          ELSE NoThread
    /\ Called("earlier_loop_top", <<>>)
    /\ ret' = NoValue
    /\ issued' = <<>>
    /\ UNCHANGED <<ctlVars, recVars, appVars, is_running, loop_pc,
                   frame_gesture, hand_tracker, frame_queue, now, os_pointer,
                   hand>>

\* lines 749-787 in the older thread
EarlierLoopRecognize ==
    /\ earlier_thread.pc = "frame"
    /\ Called("earlier_loop_recognize", <<>>)
    /\ issued' = <<>>
    /\ IF ~hand_tracker
       THEN /\ ret' = Aborted
            /\ earlier_thread' = [earlier_thread EXCEPT !.pc = "top"]
       ELSE /\ ret' = NoValue
            /\ \/ \E pc \in {"top", "put"} :
                     earlier_thread' = [pc |-> pc, gesture_type |-> "none"]
               \/ \E gesture_type \in LoopGestures :
                     earlier_thread' = [pc |-> "check",
                                        gesture_type |-> gesture_type]
    /\ UNCHANGED <<ctlVars, recVars, appVars, is_running, loop_pc,
                   frame_gesture, hand_tracker, frame_queue, now, os_pointer,
                   hand>>

\* lines 790 and 802-803 in the older thread
EarlierLoopCheck ==
    /\ earlier_thread.pc = "check"
    /\ Called("earlier_loop_check", <<>>)
    /\ earlier_thread' =
          [earlier_thread EXCEPT !.pc =
              IF control_enabled /\ earlier_thread.gesture_type # "none"
              THEN "dispatch" ELSE "put"]
    /\ ret' = NoValue
    /\ issued' = <<>>
    /\ UNCHANGED <<ctlVars, recVars, appVars, is_running, loop_pc,
                   frame_gesture, hand_tracker, frame_queue, now, os_pointer,
                   hand>>

\* lines 791-801 in the older thread: the dispatch works on the shared
\* controller, gate, counter and log
EarlierLoopDispatch ==
    /\ earlier_thread.pc = "dispatch"
    /\ earlier_thread' = [earlier_thread EXCEPT !.pc = "put"]
    /\ Called("earlier_loop_dispatch", <<earlier_thread.gesture_type>>)
    /\ LET d == execute_gesture_action(Ctl, last_activation_time,
                    gesture_count, recent_actions, control_zone_margin,
                    now, os_pointer, earlier_thread.gesture_type,
                    get_cursor_position(FrameHand(<<50, 50>>)), None, 0)
       IN  /\ ApplyOutcome([d.o EXCEPT
                             !.ret = IF d.executed THEN Success ELSE Failure])
           /\ last_activation_time' = d.gate
           /\ gesture_count' = d.gesture_count
           /\ recent_actions' = d.recent_actions
    /\ UNCHANGED <<gesture_history, valid_frames, control_enabled,
                   control_zone_margin, last_index_pos, scroll_start_y,
                   is_running, loop_pc, frame_gesture, hand_tracker,
                   frame_queue, hand>>

\* lines 764-774 and 805-816 in the older thread
EarlierLoopPut ==
    /\ earlier_thread.pc = "put"
    /\ earlier_thread' = [earlier_thread EXCEPT !.pc = "top"]
    /\ Called("earlier_loop_put", <<earlier_thread.gesture_type>>)
    /\ issued' = <<>>
    /\ IF ~hand_tracker
       THEN ret' = Aborted /\ frame_queue' = frame_queue
       ELSE LET put == queue_put_nowait(frame_queue,
                                       earlier_thread.gesture_type)
            IN  frame_queue' = put.queue /\ ret' = put.ret
    /\ UNCHANGED <<ctlVars, recVars, appVars, is_running, loop_pc,
                   frame_gesture, hand_tracker, now, os_pointer, hand>>

InitThreads == InitObjects /\ NotTracking /\ os_pointer = <<0, 0>> /\ hand = NoHand
NextThreads ==
    \/ StartTracking
    \/ RestartTracking
    \/ StopTracking
    \/ ToggleControl
    \/ LoopTop
    \/ LoopRecognize
    \/ LoopCheck
    \/ LoopDispatch
    \/ LoopPut
    \/ EarlierLoopTop
    \/ EarlierLoopRecognize
    \/ EarlierLoopCheck
    \/ EarlierLoopDispatch
    \/ EarlierLoopPut
SpecThreads == InitThreads /\ [][NextThreads]_vars

(***************************************************************************)
(* Gestures held over consecutive frames while the clock runs              *)
(* (src/main.py:789-803, 822-888).                                         *)
(***************************************************************************)
\* the classes dispatched through the gate
GatedClasses == {"thumb_index_pinch", "thumb_middle_pinch", "closed_fist",
                 "open_palm"}

\* the classes followed under the clock
HeldGestures == GatedClasses \cup {"index_extended"}

\* the index fingertip of a held gesture, in units of 0.01
HeldTip(gesture_type) ==
    IF gesture_type = "index_extended" THEN <<50, 39>> ELSE <<50, 50>>

\* one iteration of processing_loop on a frame of a held gesture, from the
\* gesture recognize_gesture returned to the bookkeeping of lines 795-803
ProcessHeldFrame ==
    \E gesture_type \in HeldGestures :
      \E tip \in {HeldTip(gesture_type)}, fail_at \in {0} :
        /\ gesture_count < MaxActions
        /\ Called("process_frame", <<gesture_type, tip, fail_at>>)
        /\ hand' = FrameHand(tip)
        /\ FrameWithHand(gesture_type, hand', fail_at)
        /\ UNCHANGED <<loopVars, control_enabled, control_zone_margin>>

InitHold == InitObjects /\ Tracking /\ os_pointer = <<0, 0>> /\ hand = NoHand
NextHold ==
    \/ ProcessHeldFrame
    \/ Tick
    \/ ToggleControl
SpecHold == InitHold /\ [][NextHold]_vars

(***************************************************************************)
(* execute_gesture_action called on two-finger-scroll frames with the      *)
(* scroll origin its caller passes  (src/main.py:849-856).                 *)
(***************************************************************************)
\* the index fingertip's y of the sampled frames, in units of 0.01
ScrollSamples == {45, 48, 50, 52, 55}

\* the origins passed: none, or a y in frame units (0.496, 0.504)
ScrollOrigins == {None, <<62, 125>>, <<63, 125>>}

ExecuteGestureAction ==
    \E y \in ScrollSamples, scroll_start \in ScrollOrigins :
        LET landmarks == FrameHand(<<50, y>>)
            d == execute_gesture_action(Ctl, last_activation_time,
                    gesture_count, recent_actions, control_zone_margin,
                    now, os_pointer, "two_finger_scroll",
                    get_cursor_position(landmarks), scroll_start, 0)
        IN  /\ Called("execute_gesture_action",
                      <<"two_finger_scroll", Rat(y, 100), scroll_start>>)
            /\ hand' = landmarks
            /\ ApplyOutcome([d.o EXCEPT
                              !.ret = IF d.executed THEN Success
                                                    ELSE Failure])
            /\ last_activation_time' = d.gate
            /\ gesture_count' = d.gesture_count
            /\ recent_actions' = d.recent_actions
            /\ UNCHANGED <<loopVars, gesture_history, valid_frames,
                           control_enabled, control_zone_margin,
                           last_index_pos, scroll_start_y>>

InitScroll == InitObjects /\ Tracking /\ os_pointer = <<0, 0>> /\ hand = NoHand
NextScroll ==
    \/ ExecuteGestureAction
    \/ Tick
SpecScroll == InitScroll /\ [][NextScroll]_vars

(***************************************************************************)
(* execute_gesture_action called on thumb-and-pinky frames, the fingertip  *)
(* sampled on, next to and between the bounds of the two volume zones      *)
(* (src/main.py:874-883).                                                  *)
(***************************************************************************)
\* the index fingertip's y of the sampled frames, in units of 0.01
VolumeSamples == {39, 40, 50, 60, 61}

ExecuteVolumeGesture ==
    \E y \in VolumeSamples, fail_at \in 0 .. 1 :
        LET landmarks == FrameHand(<<50, y>>)
            d == execute_gesture_action(Ctl, last_activation_time,
                    gesture_count, recent_actions, control_zone_margin,
                    now, os_pointer, "thumb_pinky_extended",
                    get_cursor_position(landmarks), None, fail_at)
        IN  /\ Len(recent_actions) < MaxActions
            /\ Called("execute_gesture_action",
                      <<"thumb_pinky_extended", Rat(y, 100), None, fail_at>>)
            /\ hand' = landmarks
            /\ ApplyOutcome([d.o EXCEPT
                              !.ret = IF d.executed THEN Success
                                                    ELSE Failure])
            /\ last_activation_time' = d.gate
            /\ gesture_count' = d.gesture_count
            /\ recent_actions' = d.recent_actions
            /\ UNCHANGED <<loopVars, gesture_history, valid_frames,
                           control_enabled, control_zone_margin,
                           last_index_pos, scroll_start_y>>

InitVolume == InitObjects /\ Tracking /\ os_pointer = <<0, 0>> /\ hand = NoHand
NextVolume ==
    \/ ExecuteVolumeGesture
    \/ Tick
SpecVolume == InitVolume /\ [][NextVolume]_vars

(***************************************************************************)
(* The sink's gated operations called directly under a running clock       *)
(* (src/action_controller.py:81-98, 141-202, 253-350).                     *)
(***************************************************************************)
\* the operation behind each call name
SinkCall(name, fail_at) ==
    CASE name = "left_click" -> left_click(Ctl, now, os_pointer, fail_at)
      [] name = "scroll" -> scroll(Ctl, now, os_pointer, 3, fail_at)
      [] name = "minimize_window" ->
            minimize_window(Ctl, now, os_pointer, fail_at)

CallSink(name, fail_at) ==
    LET o == SinkCall(name, fail_at)
    IN  /\ o.now <= StartTime + MaxElapsed
        /\ Called(name, <<fail_at>>)
        /\ ApplyOutcome(o)
        /\ UNCHANGED <<loopVars, recVars, appVars, hand>>

LeftClick == \E fail_at \in 0 .. 1 : CallSink("left_click", fail_at)

Scroll == \E fail_at \in 0 .. 1 : CallSink("scroll", fail_at)

MinimizeWindow == \E fail_at \in 0 .. 2 : CallSink("minimize_window", fail_at)

InitSink == InitObjects /\ NotTracking /\ os_pointer = <<0, 0>> /\ hand = NoHand
NextSink ==
    \/ LeftClick
    \/ Scroll
    \/ MinimizeWindow
    \/ Tick
SpecSink == InitSink /\ [][NextSink]_vars

(***************************************************************************)
(* Properties.                                                             *)
(***************************************************************************)

\* C1 (SpecGate): for a gesture class other than none that has been
\* activated, can_activate_gesture answers false whenever no more than
\* cooldown_time has passed since its last activation (at once after
\* activate_gesture, and still at exactly cooldown_time), and true whenever
\* more than cooldown_time has passed.
C1_GateCooldown ==
    /\ (op = "can_activate_gesture" /\ arg[1] # "none"
            /\ arg[1] \in Keys(last_activation_time)) =>
        LET since == now - Get(last_activation_time, arg[1], 0)
        IN  /\ since <= cooldown_time => ret = Failure
            /\ since > cooldown_time => ret = Success
    /\ op = "activate_gesture" =>
        ~can_activate_gesture(last_activation_time, now, arg[1])

\* a class was activated, more than the cooldown passed, and the gate opened
C1_Witness ==
    /\ op = "can_activate_gesture"
    /\ arg[1] = "closed_fist"
    /\ "closed_fist" \in Keys(last_activation_time)
    /\ now - Get(last_activation_time, "closed_fist", 0) = cooldown_time + 1
    /\ ret = Success

\* C2 (SpecGate): while the emergency stop is set, can_activate_gesture
\* answers false for every gesture class, whatever the cooldown table holds.
C2_EmergencyStopClosesGate ==
    (emergency_stop /\ op = "can_activate_gesture") => ret = Failure

\* C3 (SpecApp): while the emergency stop is set, a dispatched frame issues
\* no OS primitive and leaves the action counter, the recent-action list,
\* the gate's last-activation table and the pointer filter's last position
\* unchanged.
C3_NoEffectUnderEmergencyStop ==
    [][(emergency_stop /\ op' = "process_frame") =>
            /\ issued' = <<>>
            /\ gesture_count' = gesture_count
            /\ recent_actions' = recent_actions
            /\ last_activation_time' = last_activation_time
            /\ last_mouse_position' = last_mouse_position]_vars


\* C4 (SpecDrag): while the emergency stop is set, no operation of the
\* ActionController issues an OS primitive.
C4_NoPrimitiveUnderEmergencyStop ==
    [][emergency_stop => issued' = <<>>]_vars

\* C5 (SpecDrag): end_drag while Idle returns failure, issues nothing and
\* leaves the state Idle; start_drag while Dragging returns failure, issues
\* nothing and leaves the state Dragging with the start position it had.
C5_DragMisuse ==
    [][/\ (op' = "end_drag" /\ ~is_dragging) =>
            /\ ret' = Failure
            /\ issued' = <<>>
            /\ ~is_dragging'
            /\ drag_start_position' = None
       /\ (op' = "start_drag" /\ is_dragging) =>
            /\ ret' = Failure
            /\ issued' = <<>>
            /\ is_dragging'
            /\ drag_start_position' = drag_start_position]_vars

\* a start_drag was refused while a drag was in progress
C5_Witness ==
    /\ op = "start_drag"
    /\ arg = <<0>>
    /\ ret = Failure
    /\ is_dragging
    /\ drag_start_position # os_pointer

\* Dragging holds exactly when a start position is recorded
DragStateConsistent == is_dragging <=> (drag_start_position # None)

\* C6 (SpecDrag): when no primitive fails, start_drag from Idle issues
\* exactly one button-down, records the pointer's position and moves to
\* Dragging, returning success; end_drag from Dragging issues exactly one
\* button-up, clears the start position and moves to Idle, returning
\* success; and in every state Dragging holds exactly when a start position
\* is recorded.
C6_DragHappyPath ==
    /\ DragStateConsistent
    /\ [][/\ DragStateConsistent'
          /\ (op' = "start_drag" /\ arg' = <<0>> /\ ~is_dragging) =>
                /\ ret' = Success
                /\ issued' = <<<<"mouseDown">>>>
                /\ is_dragging'
                /\ drag_start_position' = os_pointer
          /\ (op' = "end_drag" /\ arg' = <<0>> /\ is_dragging) =>
                /\ ret' = Success
                /\ issued' = <<<<"mouseUp">>>>
                /\ ~is_dragging'
                /\ drag_start_position' = None]_vars

\* a drag was started and then ended, both with success
C6_Witness ==
    /\ op = "end_drag"
    /\ ret = Success
    /\ issued = <<<<"mouseUp">>>>
    /\ ~is_dragging
    /\ drag_start_position = None

\* the clamped pixel a normalized target stands for
TargetOf(nx, ny) ==
    <<TargetPixel(nx, ScreenWidth), TargetPixel(ny, ScreenHeight)>>

\* C7 (SpecPointer): with smoothing below 1, repeating move_mouse with the
\* same target brings the emitted position to the target: once a move has
\* emitted a position that the next call with the same target would emit
\* again (a steady state), that position is the target.
C7_FilterConverges ==
    (/\ op = "move_mouse" /\ ret = Success
     /\ RLt(mouse_smoothing, RInt(1))
     /\ MoveTarget(Ctl, arg[1], arg[2]) = last_mouse_position)
    => last_mouse_position = TargetOf(arg[1], arg[2])

\* C8 (SpecPointer): every position handed to the move primitive, and the
\* stored last position, lies within [0, width-1] x [0, height-1].
C8_PointerInBounds ==
    /\ last_mouse_position # None => last_mouse_position \in Pixels
    /\ \A i \in 1 .. Len(issued) :
          issued[i][1] = "moveTo" => <<issued[i][2], issued[i][3]>> \in Pixels

\* a smoothed move to a target outside [0, 1], after an out-of-range
\* smoothing factor was set
C8_Witness ==
    /\ op = "move_mouse"
    /\ ret = Success
    /\ RLt(RInt(1), arg[1])
    /\ RLt(arg[2], RInt(0))
    /\ mouse_smoothing = <<0, 1>>
    /\ last_mouse_position = <<ScreenWidth - 1, 0>>

\* C9 (SpecMap): for a margin m in [0, 0.5) each axis of the remap is
\* clamp((h - m) / (1 - 2m), 0, 1): h = m and every h < m map to 0,
\* h = 1 - m and every h > 1 - m map to 1, in between the result r satisfies
\* r * (1 - 2m) = h - m, the result lies in [0, 1] and does not decrease
\* with h; the two axes are remapped each from its own coordinate with the
\* same margin.
C9_ZoneRemap ==
    op = "map_to_screen_coordinates" =>
        LET m == control_zone_margin
            far == RSub(RInt(1), m)
        IN  \A i \in {1, 2} :
                LET h == arg[i]
                    r == ret[i]
                IN  /\ RLe(RInt(0), r) /\ RLe(r, RInt(1))
                    /\ RLe(h, m) => r = RInt(0)
                    /\ RLe(far, h) => r = RInt(1)
                    /\ (RLt(m, h) /\ RLt(h, far)) =>
                          RMul(r, RSub(far, m)) = RSub(h, m)
                    /\ \A h2 \in HandCoords :
                          RLe(h, h2) => RLe(r, map_coordinate(h2, m))

\* x at the margin maps to 0 and y at 1 - margin maps to 1
C9_Witness ==
    /\ op = "map_to_screen_coordinates"
    /\ RLt(RInt(0), control_zone_margin)
    /\ arg[1] = control_zone_margin
    /\ arg[2] = RSub(RInt(1), control_zone_margin)
    /\ ret = <<RInt(0), RInt(1)>>

\* C10 (SpecPinch): with d the planar distance between the two tips, the
\* pinch confidence is 0 when d >= pinch_threshold and 1 - d/pinch_threshold
\* when d < pinch_threshold; it lies in [0, 1], is exactly 1 when the tips
\* coincide, and is strictly smaller for a strictly larger d below the
\* threshold.
C10_PinchConfidence ==
    op = "_detect_pinch" =>
        LET q == SquaredPlanar(hand[arg[1]], hand[arg[2]])
            d2 == Rat(q, 10000)
            thr2 == RMul(pinch_threshold, pinch_threshold)
            gap == RMul(RSub(RInt(1), ret), pinch_threshold)
        IN  /\ RLe(RInt(0), ret) /\ RLe(ret, RInt(1))
            /\ ~RLt(d2, thr2) => ret = RInt(0)
            /\ RLt(d2, thr2) => RMul(gap, gap) = d2
            /\ q = 0 => ret = RInt(1)
            /\ \A o \in PinchOffsets :
                  LET q2 == o[1] * o[1] + o[2] * o[2]
                  IN  (q < q2 /\ RLt(Rat(q2, 10000), thr2)) =>
                        RLt(detect_pinch(PinchHand(o, o, 0), THUMB_TIP,
                                         INDEX_TIP), ret)

\* thumb and middle tip 0.03 apart: confidence 1 - 0.03/0.05 = 2/5
C10_Witness ==
    /\ op = "_detect_pinch"
    /\ arg = <<THUMB_TIP, MIDDLE_TIP>>
    /\ SquaredPlanar(hand[THUMB_TIP], hand[MIDDLE_TIP]) = 9
    /\ ret = <<2, 5>>

\* C11 (SpecFingers): for every extension pattern of index, middle, ring and
\* pinky the closed-fist confidence is 1 when none of the four is extended
\* and 0 otherwise, the open-palm confidence is 1 when all four are extended
\* and 0 otherwise; so both are 0 when 1 to 3 fingers are extended and the
\* two are never both greater than 0.
C11_FistPalmExclusive ==
    op \in {"_detect_closed_fist", "_detect_open_palm"} =>
        LET extended == CountTrue(FingersExtended(hand))
            fist == IF op = "_detect_closed_fist" THEN ret
                    ELSE detect_closed_fist(hand)
            palm == IF op = "_detect_open_palm" THEN ret
                    ELSE detect_open_palm(hand)
        IN  /\ fist = (IF extended = 0 THEN RInt(1) ELSE RInt(0))
            /\ palm = (IF extended = 4 THEN RInt(1) ELSE RInt(0))
            /\ ~(RLt(RInt(0), fist) /\ RLt(RInt(0), palm))

\* the fist detector on a hand with the ring finger alone extended, by the
\* smallest margin: three closed fingers are not a fist
C11_Witness ==
    /\ op = "_detect_closed_fist"
    /\ FingersExtended(hand) = <<FALSE, FALSE, TRUE, FALSE>>
    /\ hand[RING_TIP] = <<50, 70 - 19, 0>>
    /\ hand[INDEX_TIP] = <<50, 70 - 18, 0>>
    /\ ret = RInt(0)

\* C12 (SpecRecognizer): recognize_gesture on a landmark sequence whose
\* length is not 21 (empty or missing included) returns (none, 0) whatever
\* the history window holds, and leaves the window as it was.
C12_InvalidLandmarks ==
    [][(op' = "recognize_gesture" /\ LandmarkCount(hand') # 21) =>
            /\ ret' = <<"none", RInt(0)>>
            /\ gesture_history' = gesture_history]_vars

\* a sequence of 20 landmarks while the window holds five index_extended
C12_Witness ==
    /\ op = "recognize_gesture"
    /\ LandmarkCount(hand) = 20
    /\ Len(gesture_history) = HistoryCapacity
    /\ \A i \in 1 .. HistoryCapacity :
          gesture_history[i] = <<"index_extended", <<9, 10>>>>
    /\ ret = <<"none", RInt(0)>>

\* the window is the classifications of the most recent valid frames
WindowIsRecentFrames ==
    /\ Len(gesture_history) <= 5
    /\ gesture_history = valid_frames

\* C13 (SpecRecognizer): the history window holds at most 5 classifications,
\* they are the per-frame classifications of the most recent valid frames
\* in arrival order, and a valid frame arriving at a full window evicts the
\* oldest entry only.
C13_HistoryWindow ==
    /\ WindowIsRecentFrames
    /\ [][/\ WindowIsRecentFrames'
          /\ (op' = "recognize_gesture" /\ LandmarkCount(hand') = 21
                /\ Len(gesture_history) = 5) =>
                gesture_history' =
                    Tail(gesture_history) \o <<ClassifyFrame(hand')>>]_vars

\* a sixth valid frame has pushed the first one out of the window
C13_Witness ==
    /\ op = "recognize_gesture"
    /\ hand = MiddleHand
    /\ gesture_history =
          << <<"thumb_index_pinch", <<4, 5>>>>,
             <<"none", RInt(0)>>,
             <<"index_extended", <<9, 10>>>>,
             <<"thumb_index_pinch", <<3, 5>>>>,
             <<"none", RInt(0)>> >>

\* the classes present in the window
WindowClasses == {gesture_history[i][1] : i \in 1 .. Len(gesture_history)}

\* the sum of the confidences the window holds for a class
WindowSum(gesture) ==
    SumConfidence(SelectSeq(gesture_history, LAMBDA e : e[1] = gesture))

\* C14 (SpecRecognizer): for a valid frame the returned class is one whose
\* group score (the sum of its confidences in the window) is greatest among
\* the classes present in the window, and the returned confidence is the
\* arithmetic mean of that class's confidences in the window.
C14_StabilizedOutput ==
    (op = "recognize_gesture" /\ LandmarkCount(hand) = 21) =>
        /\ ret[1] \in WindowClasses
        /\ \A g \in WindowClasses : RLe(WindowSum(g), WindowSum(ret[1]))
        /\ RMul(ret[2], RInt(Cardinality({i \in 1 .. Len(gesture_history) :
                                            gesture_history[i][1] = ret[1]})))
              = WindowSum(ret[1])

\* two pinches at 0.6 and 0.8 (score 1.4) beat an unclassified frame and
\* the newest frame, an index_extended at 0.9: the mean 0.7 is returned
C14_Witness ==
    /\ op = "recognize_gesture"
    /\ hand = PointHand
    /\ gesture_history =
          << <<"thumb_index_pinch", <<3, 5>>>>,
             <<"none", RInt(0)>>,
             <<"thumb_index_pinch", <<4, 5>>>>,
             <<"index_extended", <<9, 10>>>> >>
    /\ ret = <<"thumb_index_pinch", <<7, 10>>>>

C16_NoActionWithoutControl ==
    [][(op' = "loop_dispatch" /\ issued' # <<>>) =>
            (control_enabled /\ frame_gesture # "none")]_vars

\* the gate's stored time of a class (0 when it has none)
LastActivation(gesture) == Get(last_activation_time, gesture, 0)

\* C17 (SpecHold): on a frame of a gated class (thumb_index_pinch,
\* thumb_middle_pinch, closed_fist, open_palm) the dispatcher invokes the
\* mapped primitive exactly when control is enabled and more than
\* cooldown_time has passed since the class's stored activation; it then
\* stamps the class with the time of the dispatch, so two dispatches of one
\* class are more than cooldown_time apart; when it does not dispatch it
\* issues nothing and leaves the table alone.
C17_GatedDispatch ==
    [][(op' = "process_frame" /\ arg'[1] \in GatedClasses) =>
          LET G == arg'[1]
              dispatched == gesture_count' = gesture_count + 1
              mapped == CASE G = "thumb_index_pinch" -> <<"click">>
                          [] G = "thumb_middle_pinch" -> <<"rightClick">>
                          [] OTHER -> <<"hotkey", "alt+space">>
          IN  /\ dispatched <=>
                    (control_enabled /\ now - LastActivation(G) > cooldown_time)
              /\ dispatched =>
                    /\ Get(last_activation_time', G, 0) = now'
                    /\ \A H \in Keys(last_activation_time) \ {G} :
                          Get(last_activation_time', H, 0) = LastActivation(H)
                    /\ issued' # <<>> => issued'[1] = mapped
              /\ ~dispatched =>
                    /\ issued' = <<>>
                    /\ last_activation_time' = last_activation_time]_vars

\* a pinch held over frames was dispatched a second time, more than the
\* cooldown after the first
C17_Witness ==
    /\ op = "process_frame"
    /\ arg[1] = "thumb_index_pinch"
    /\ issued = <<<<"click">>>>
    /\ gesture_count = 2
    /\ Len(recent_actions) = 2
    /\ recent_actions[1][2] = "Left Click"
    /\ recent_actions[2][2] = "Left Click"
    /\ LastActivation("thumb_index_pinch") = now

\* C18 (SpecHold): on every frame whose stabilized gesture is
\* index_extended, while control is enabled and the emergency stop is
\* clear, the dispatcher remaps the index fingertip through the control zone
\* and hands it to the pointer filter, which moves the pointer (unless the
\* OS primitive fails), whatever the cooldown tables hold and however
\* recent the previous move is; neither cooldown table is written and the
\* action counter is not touched.
C18_PointerNotDebounced ==
    [][(op' = "process_frame" /\ arg'[1] = "index_extended"
            /\ control_enabled /\ ~emergency_stop) =>
          LET cursor_pos == get_cursor_position(hand')
              mapped == map_to_screen_coordinates(cursor_pos[1], cursor_pos[2],
                                                  control_zone_margin)
              target == MoveTarget(Ctl, mapped[1], mapped[2])
          IN  /\ arg'[3] = 0 =>
                    /\ issued' = <<<<"moveTo", target[1], target[2]>>>>
                    /\ last_mouse_position' = target
              /\ last_activation_time' = last_activation_time
              /\ last_action_time' = last_action_time
              /\ gesture_count' = gesture_count]_vars

\* a move at the very clock reading at which a pinch was activated and the
\* gate closed for it
C18_Witness ==
    /\ op = "process_frame"
    /\ arg[1] = "index_extended"
    /\ issued # <<>>
    /\ issued[1][1] = "moveTo"
    /\ LastActivation("thumb_index_pinch") = now

\* C19 (SpecApp): with control enabled, a frame whose stabilized gesture is
\* two_finger_scroll while no origin is recorded records the index
\* fingertip's y as the scroll origin (so that a later scroll frame far
\* enough from it scrolls).
C19_ScrollOriginCaptured ==
    [][(op' = "process_frame" /\ arg'[1] = "two_finger_scroll"
            /\ control_enabled /\ scroll_start_y = None) =>
          scroll_start_y' = get_cursor_position(hand')[2]]_vars

\* floor of a rational
RFloor(a) == IF a[1] >= 0 THEN a[1] \div a[2]
             ELSE -((-a[1] + a[2] - 1) \div a[2])

\* round() to the nearest integer, a tie going to the even one
RoundNearest(a) ==
    LET f == RFloor(a)
        frac == RSub(a, RInt(f))
    IN  IF RLt(frac, <<1, 2>>) THEN f
        ELSE IF RLt(<<1, 2>>, frac) THEN f + 1
        ELSE IF f % 2 = 0 THEN f ELSE f + 1

\* C20 (SpecScroll): on a two_finger_scroll dispatch with recorded origin o
\* and fingertip y, a scroll is requested only when |y - o| > 0.02 (and is
\* issued then, unless the sink's own micro-cooldown refuses it), its
\* amount is round(-(y - o) * 150), to the nearest integer; nothing is
\* issued when no origin is recorded.
C20_ScrollAmount ==
    op = "execute_gesture_action" =>
        IF arg[3] = None THEN issued = <<>> /\ ret = Failure
        ELSE LET delta_y == RSub(arg[2], arg[3])
                 far == RLt(<<1, 50>>, RAbs(delta_y))
             IN  /\ far <=> (ret = Success)
                 /\ issued # <<>> =>
                        /\ far
                        /\ issued =
                             << <<"scroll",
                                  RoundNearest(RMul(RSub(RInt(0), delta_y),
                                                    RInt(150)))>> >>
                 /\ (far /\ Get(last_action_time, "scroll", 0) # now) =>
                        issued # <<>>

\* C21 (SpecVolume): on a thumb-and-pinky dispatch with the index fingertip
\* at height y, volume-up is requested (announced as "Volume Up", and its
\* key pressed when the sink accepts) exactly when y < 0.4, volume-down
\* exactly when y > 0.6, and for 0.4 <= y <= 0.6, both bounds included,
\* nothing is issued and nothing announced; the gate's table is not updated
\* and the dispatch does not depend on it.
C21_VolumeZones ==
    [][(op' = "execute_gesture_action" /\ arg'[1] = "thumb_pinky_extended")
        => LET y == arg'[2]
               up == RLt(y, <<2, 5>>)
               down == RLt(<<3, 5>>, y)
               Requested(name, key, action_type) ==
                   /\ recent_actions' =
                          Append(recent_actions, <<now \div 20, name>>)
                   /\ issued' \in {<<>>, << <<"press", key>> >>}
                   /\ (arg'[4] = 0
                          /\ can_execute_action(Ctl, now, action_type))
                        => issued' # <<>>
           IN  /\ up => Requested("Volume Up", "volumeup", "volume_up")
               /\ down => Requested("Volume Down", "volumedown",
                                    "volume_down")
               /\ (~up /\ ~down) =>
                      /\ issued' = <<>>
                      /\ recent_actions' = recent_actions
                      /\ last_action_time' = last_action_time
               /\ ret' = Success
               /\ last_activation_time' = last_activation_time]_vars

\* a dispatch at y = 0.4 exactly, after one that raised the volume
C21_Witness ==
    /\ op = "execute_gesture_action"
    /\ arg[1] = "thumb_pinky_extended"
    /\ arg[2] = <<2, 5>>
    /\ issued = <<>>
    /\ recent_actions = << <<now \div 20, "Volume Up">> >>
    /\ "volume_up" \in Keys(last_action_time)

\* C22 (SpecApp): every dispatch that succeeds -- a pointer move, a click,
\* a scroll, a window command or a volume step whose primitives were
\* issued without a failure -- increments the action counter by exactly one
\* and appends exactly one record to the event log.
C22_DispatchCountedAndLogged ==
    [][(op' = "process_frame" /\ arg'[3] = 0 /\ issued' # <<>>) =>
          /\ gesture_count' = gesture_count + 1
          /\ Len(recent_actions') = Len(recent_actions) + 1
          /\ SubSeq(recent_actions', 1, Len(recent_actions))
                = recent_actions]_vars

\* C23 (SpecLoop): the frame queue never holds more than 2 items; the
\* loop's put on a full queue drops the new item, leaves the queued items
\* as they are and lets the loop go on, and otherwise appends the new item
\* behind them; the UI's get on an empty queue returns nothing and leaves
\* it empty, and otherwise takes the oldest item.
C23_FrameQueue ==
    [][/\ Len(frame_queue') <= 2
       /\ (op' = "loop_put" /\ hand_tracker) =>
              /\ loop_pc' = "top"
              /\ IF Len(frame_queue) = 2
                 THEN frame_queue' = frame_queue /\ ret' = Failure
                 ELSE /\ frame_queue' = Append(frame_queue, frame_gesture)
                      /\ ret' = Success
       /\ (op' = "update_ui" /\ is_running) =>
              IF frame_queue = <<>>
              THEN frame_queue' = <<>> /\ ret' = NoValue
              ELSE /\ ret' = Head(frame_queue)
                   /\ frame_queue' = Tail(frame_queue)]_vars

\* a frame dropped at a full queue that holds two different frames
C23_Witness ==
    /\ op = "loop_put"
    /\ ret = Failure
    /\ Len(frame_queue) = 2
    /\ frame_queue[1] # frame_queue[2]
    /\ frame_gesture # frame_queue[2]

\* C24 (SpecLoop): stop_tracking signals the processing loop only through
\* the running flag: called while an iteration is in flight it leaves the
\* hand tracker in place, and no step of an iteration is cut short for
\* want of the tracker; the loop exits at its next test of the flag.
C24_CooperativeStop ==
    [][/\ (op' = "stop_tracking" /\ loop_pc \notin {"top", "stopped"}) =>
              hand_tracker' = hand_tracker
       /\ op' \in {"loop_recognize", "loop_put"} => ret' # Aborted]_vars

\* C25 (SpecLoopLive): once stop_tracking has cleared the running flag
\* (and no start_tracking follows before the thread has exited), the
\* processing loop eventually terminates, whatever frames and hands the
\* tracker delivers meanwhile.
C25_StopLiveness == [](~is_running => <>(loop_pc = "stopped"))

\* the loop has just exited on a cleared flag, two frames still queued
C25_Witness ==
    /\ op = "loop_top"
    /\ loop_pc = "stopped"
    /\ ~is_running
    /\ Len(frame_queue) = 2

\* C26 (SpecGate): activate_gesture(G) changes only G's stored time (to the
\* time of the call): for every other class H the stored time, and with it
\* the answer of can_activate_gesture(H), are what they were before the
\* call; can_activate_gesture never modifies the table.
C26_ChannelIndependence ==
    [][/\ op' = "activate_gesture" =>
            /\ Get(last_activation_time', arg'[1], 0) = now
            /\ \A H \in GestureType \ {arg'[1]} :
                  /\ (H \in Keys(last_activation_time'))
                        <=> (H \in Keys(last_activation_time))
                  /\ Get(last_activation_time', H, 0)
                        = Get(last_activation_time, H, 0)
                  /\ can_activate_gesture(last_activation_time', now', H)
                        <=> can_activate_gesture(last_activation_time, now, H)
       /\ op' = "can_activate_gesture" =>
            last_activation_time' = last_activation_time]_vars

\* closed_fist has just been activated while the cooldown of an earlier
\* thumb_index_pinch has run out: the gate stays open for the pinch
C26_Witness ==
    /\ op = "activate_gesture"
    /\ arg[1] = "closed_fist"
    /\ "thumb_index_pinch" \in Keys(last_activation_time)
    /\ can_activate_gesture(last_activation_time, now, "thumb_index_pinch")
    /\ ~can_activate_gesture(last_activation_time, now, "closed_fist")

\* the landmarks the finger-extension helper reads for the four fingers
HelperLandmarks == {WRIST, INDEX_TIP, INDEX_MCP, MIDDLE_TIP, MIDDLE_MCP,
                    RING_TIP, RING_MCP, PINKY_TIP, PINKY_MCP}

\* C27 (SpecFault): when the computation of one detector raises -- in the
\* detector itself or in the finger-extension helper it calls -- that
\* detector contributes confidence 0, and the resolver still completes and
\* pushes the frame's classification into the window.
C27_DetectorFaultIsolation ==
    /\ (op = "_detect_pinch" /\ Raises(hand, {arg[1], arg[2]})) =>
            ret = RInt(0)
    /\ (op = "_detect_closed_fist" /\ Raises(hand, HelperLandmarks)) =>
            ret = RInt(0)
    /\ (op = "_detect_open_palm" /\ Raises(hand, HelperLandmarks)) =>
            ret = RInt(0)
    /\ op = "recognize_gesture" =>
            /\ gesture_history # <<>>
            /\ gesture_history[Len(gesture_history)] = ClassifyFrame(hand)

\* an operation of the sink that reported failure and left the
\* micro-cooldown table and the filter's last pointer position alone
SinkFault(o) ==
    /\ o.ret = Failure
    /\ o.st.last_action_time = last_action_time
    /\ o.st.last_mouse_position = last_mouse_position

\* the dispatch of the class reaches its primitive: the gate and the sink's
\* micro-cooldown let it through
ReachesPrimitive(gesture_type, cursor_pos) ==
    CASE gesture_type = "index_extended" -> TRUE
      [] gesture_type = "thumb_index_pinch" ->
            /\ can_activate_gesture(last_activation_time, now, gesture_type)
            /\ can_execute_action(Ctl, now, "left_click")
      [] gesture_type = "thumb_middle_pinch" ->
            /\ can_activate_gesture(last_activation_time, now, gesture_type)
            /\ can_execute_action(Ctl, now, "right_click")
      [] gesture_type = "closed_fist" ->
            /\ can_activate_gesture(last_activation_time, now, gesture_type)
            /\ can_execute_action(Ctl, now, "minimize_window")
      [] gesture_type = "open_palm" ->
            /\ can_activate_gesture(last_activation_time, now, gesture_type)
            /\ can_execute_action(Ctl, now, "maximize_window")
      [] gesture_type = "thumb_pinky_extended" ->
            \/ RLt(cursor_pos[2], <<2, 5>>)
                  /\ can_execute_action(Ctl, now, "volume_up")
            \/ RLt(<<3, 5>>, cursor_pos[2])
                  /\ can_execute_action(Ctl, now, "volume_down")
      [] OTHER -> FALSE

\* C28 (SpecApp): when an OS primitive raises inside an operation of the
\* sink, the operation returns failure (nothing propagates), and its
\* micro-cooldown time stamp and, for move_mouse, the last pointer position
\* are unchanged; the dispatcher does not issue the primitive again in that
\* frame and the frame's processing goes on to its end.
C28_SinkFaultHandling ==
    [][/\ ~emergency_stop =>
            /\ SinkFault(move_mouse(Ctl, now, os_pointer, <<1, 2>>, <<1, 2>>, 1))
            /\ \A fail_at \in 1 .. 2 :
                  /\ SinkFault(start_drag(Ctl, now, os_pointer, fail_at))
                  /\ can_execute_action(Ctl, now, "minimize_window") =>
                        SinkFault(minimize_window(Ctl, now, os_pointer, fail_at))
                  /\ can_execute_action(Ctl, now, "maximize_window") =>
                        SinkFault(maximize_window(Ctl, now, os_pointer, fail_at))
            /\ can_execute_action(Ctl, now, "left_click") =>
                  SinkFault(left_click(Ctl, now, os_pointer, 1))
            /\ can_execute_action(Ctl, now, "right_click") =>
                  SinkFault(right_click(Ctl, now, os_pointer, 1))
            /\ can_execute_action(Ctl, now, "scroll") =>
                  SinkFault(scroll(Ctl, now, os_pointer, 3, 1))
            /\ can_execute_action(Ctl, now, "close_window") =>
                  SinkFault(close_window(Ctl, now, os_pointer, 1))
            /\ can_execute_action(Ctl, now, "volume_up") =>
                  SinkFault(adjust_volume(Ctl, now, os_pointer, "up", 1))
            /\ can_execute_action(Ctl, now, "volume_down") =>
                  SinkFault(adjust_volume(Ctl, now, os_pointer, "down", 1))
       /\ (op' = "process_frame" /\ arg'[3] >= 1 /\ control_enabled
              /\ ~emergency_stop
              /\ ReachesPrimitive(arg'[1], get_cursor_position(hand'))) =>
            /\ last_action_time' = last_action_time
            /\ last_mouse_position' = last_mouse_position
            /\ Len(issued') = arg'[3] - 1
            /\ ret' = Success
            /\ arg'[1] \in GatedClasses =>
                  gesture_count' = gesture_count + 1]_vars

\* a minimize whose second primitive raised: the hotkey was issued once,
\* no time stamp was taken and the frame was processed to its end
C28_Witness ==
    /\ op = "process_frame"
    /\ arg[1] = "closed_fist"
    /\ arg[3] = 2
    /\ issued = << <<"hotkey", "alt+space">> >>
    /\ "minimize_window" \notin Keys(last_action_time)
    /\ ret = Success
    /\ gesture_count = 1

\* the micro-cooldowns as stated, in ticks of 0.05 s: 0.1 s for clicks,
\* scroll and volume, 1.0 s for window commands
StatedCooldown(action_type) ==
    IF action_type \in {"minimize_window", "maximize_window", "close_window"}
    THEN 20 ELSE 2

\* C29 (SpecSink): a call of an action type made no more than the type's
\* cooldown (0.1 s for clicks, scroll and volume, 1.0 s for window
\* commands) after its last successful execution returns failure without
\* issuing its primitive; a later call succeeds; the cooldown of one type
\* is not affected by calls of another type.
C29_SinkCooldowns ==
    [][op' \in {"left_click", "scroll", "minimize_window"} =>
         LET since == now - Get(last_action_time, op', 0)
         IN  /\ (op' \in Keys(last_action_time)
                    /\ since <= StatedCooldown(op')) =>
                   ret' = Failure /\ issued' = <<>>
             /\ (since > StatedCooldown(op') /\ arg'[1] = 0) =>
                   ret' = Success /\ issued' # <<>>
             /\ \A other \in ActionType \ {op'} :
                   Get(last_action_time', other, 0)
                     = Get(last_action_time, other, 0)]_vars

\* C30 (SpecDrag): after reset returns the drag state is Idle with no
\* recorded start position; when the state was Dragging, reset invokes
\* end_drag, which requests the button-up -- also when an OS primitive
\* fails during that end_drag.
C30_ResetLeavesIdle ==
    [][op' = "reset" =>
          /\ ~is_dragging'
          /\ drag_start_position' = None
          /\ (is_dragging /\ arg'[1] # 1) => issued' = << <<"mouseUp">> >>]_vars

\* the whole pixel e is prev + (target - prev) * (1 - alpha) with its
\* fraction dropped
BlendedPixel(e, prev, target, alpha) ==
    LET exact == RAdd(RInt(prev),
                      RMul(RInt(target - prev), RSub(RInt(1), alpha)))
    IN  RLe(RInt(e), exact) /\ RLt(exact, RInt(e + 1))

Confidences(landmarks) ==
    LET items == DetectAll(landmarks)
    IN  {items[i][2] : i \in 1 .. Len(items)}

\* C32 (SpecFrame): the classification pushed into the window for a frame
\* is a detector class of maximal confidence when that maximum is at least
\* 0.5 (exactly 0.5 included), and (none, 0) when it is below 0.5; every
\* entry of the window other than none has a confidence in [0.5, 1] and
\* every none entry has confidence 0.
C32_PerFrameResolution ==
    op = "recognize_gesture" =>
        LET items == DetectAll(hand)
            top == CHOOSE m \in Confidences(hand) :
                      \A x \in Confidences(hand) : RLe(x, m)
            pushed == gesture_history[Len(gesture_history)]
        IN  /\ gesture_history # <<>>
            /\ IF RLe(<<1, 2>>, top)
               THEN /\ pushed[2] = top
                    /\ \E i \in 1 .. Len(items) : items[i] = pushed
               ELSE pushed = <<"none", RInt(0)>>
            /\ \A k \in 1 .. Len(gesture_history) :
                  IF gesture_history[k][1] = "none"
                  THEN gesture_history[k][2] = RInt(0)
                  ELSE /\ RLe(<<1, 2>>, gesture_history[k][2])
                       /\ RLe(gesture_history[k][2], RInt(1))

\* a frame whose greatest confidence is exactly 0.5 was kept
C32_Witness ==
    /\ op = "recognize_gesture"
    /\ hand = HalfHand
    /\ gesture_history[Len(gesture_history)] = <<"index_extended", <<1, 2>>>>

\* C33 (SpecRecognizer): the stabilized class is none whenever none is the
\* per-frame class of more than half of the window's entries; one frame of
\* another class among four none frames does not yield that class.
C33_NoneMajority ==
    (/\ op = "recognize_gesture" /\ LandmarkCount(hand) = 21
     /\ 2 * Cardinality({i \in 1 .. Len(gesture_history) :
                            gesture_history[i][1] = "none"})
            > Len(gesture_history))
    => ret[1] = "none"

\* C34 (SpecPointer): once enable_emergency_stop has been called,
\* emergency_stop stays set through every other operation (moves, reset,
\* smoothing changes) until disable_emergency_stop is called.
C34_EmergencyStopLatch ==
    [][(emergency_stop /\ op' # "disable_emergency_stop") =>
            emergency_stop']_vars

\* positions of processing_loop inside the processing of a frame
InFrame == {"check", "dispatch", "put"}

\* C35 (SpecThreads): across every interleaving of start_tracking and
\* stop_tracking on the UI thread, the loop started by an earlier
\* start_tracking has exited before the loop started by a later one
\* processes a frame, and does not dispatch after the later start.
C35_SinglePipelineThread ==
    /\ loop_pc \in InFrame => earlier_thread = NoThread
    /\ op # "earlier_loop_dispatch"

\* what the sink's operation answers to the dispatch of the class
SinkReturned(gesture_type, cursor_pos, fail_at) ==
    CASE gesture_type = "thumb_index_pinch" ->
            left_click(Ctl, now, os_pointer, fail_at).ret
      [] gesture_type = "thumb_middle_pinch" ->
            right_click(Ctl, now, os_pointer, fail_at).ret
      [] gesture_type = "closed_fist" ->
            minimize_window(Ctl, now, os_pointer, fail_at).ret
      [] gesture_type = "open_palm" ->
            maximize_window(Ctl, now, os_pointer, fail_at).ret
      [] gesture_type = "thumb_pinky_extended" ->
            IF RLt(cursor_pos[2], <<2, 5>>)
            THEN adjust_volume(Ctl, now, os_pointer, "up", fail_at).ret
            ELSE IF RLt(<<3, 5>>, cursor_pos[2])
            THEN adjust_volume(Ctl, now, os_pointer, "down", fail_at).ret
            ELSE Failure
      [] OTHER -> Failure

\* C36 (SpecApp): the action counter is incremented, a recent-action record
\* is appended and the gate's activation is stamped only for a dispatch
\* whose sink operation returned success; a click, window command or volume
\* change the sink rejected (micro-cooldown, emergency stop or a failing OS
\* primitive) is not counted, not logged and does not restart the cooldown.
C36_CountedOnlyOnSuccess ==
    [][(/\ op' = "process_frame"
        /\ \/ gesture_count' # gesture_count
           \/ recent_actions' # recent_actions
           \/ last_activation_time' # last_activation_time)
       => SinkReturned(arg'[1], get_cursor_position(hand'), arg'[3]) = Success]_vars

\* the button primitives among the primitives a step issued
ButtonsIssued(prims) ==
    SelectSeq(prims, LAMBDA prim : prim[1] \in {"mouseDown", "mouseUp"})

\* C37 (SpecDrag): over any sequence of start_drag, end_drag and reset,
\* failing OS primitives included, the issued button-down and button-up
\* primitives alternate, beginning with a button-down, and is_dragging
\* holds exactly when the last issued button primitive was a button-down:
\* a step issues at most one button primitive, a button-down only from
\* Idle into Dragging, a button-up only from Dragging into Idle, and
\* is_dragging changes in no other step.
C37_ButtonPairing ==
    [][LET buttons == ButtonsIssued(issued')
       IN  /\ Len(buttons) <= 1
           /\ buttons = << <<"mouseDown">> >> => (~is_dragging /\ is_dragging')
           /\ buttons = << <<"mouseUp">> >> => (is_dragging /\ ~is_dragging')
           /\ buttons = <<>> => is_dragging' = is_dragging]_vars

\* the last five at most of a sequence of classifications
NewestFive(entries) ==
    SubSeq(entries, IMax(1, Len(entries) - 4), Len(entries))

\* C38 (SpecGap): a recognize_gesture call with invalid landmarks and a
\* processed frame in which no hand is detected leave the history window
\* as it was; a valid frame after the gap is entered behind the votes cast
\* before the gap, which are counted with it.
C38_GapLeavesWindow ==
    [][/\ (\/ op' = "recognize_gesture" /\ LandmarkCount(hand') # 21
           \/ op' = "process_frame" /\ hand' = NoHand)
          => gesture_history' = gesture_history
       /\ (op' = "recognize_gesture" /\ LandmarkCount(hand') = 21) =>
             /\ gesture_history' =
                   NewestFive(Append(gesture_history, ClassifyFrame(hand')))
             /\ \A i \in 1 .. Len(gesture_history') :
                   RLe(SumConfidence(SelectSeq(gesture_history',
                          LAMBDA e : e[1] = gesture_history'[i][1])),
                       SumConfidence(SelectSeq(gesture_history',
                          LAMBDA e : e[1] = ret'[1])))]_vars

\* a frame without a hand was processed while the window held three votes
C38_Witness ==
    /\ op = "process_frame"
    /\ hand = NoHand
    /\ gesture_history =
          << <<"thumb_index_pinch", <<4, 5>>>>,
             <<"none", RInt(0)>>,
             <<"index_extended", <<9, 10>>>> >>

\* the sum of the confidences a window holds for a class
ScoreIn(window, gesture) ==
    SumConfidence(SelectSeq(window, LAMBDA e : e[1] = gesture))

\* where a class first appears in a window
FirstAt(window, gesture) ==
    CHOOSE i \in 1 .. Len(window) :
        /\ window[i][1] = gesture
        /\ \A j \in 1 .. i - 1 : window[j][1] # gesture

\* the pair a non-empty window resolves to: of the classes of the greatest
\* score the one that appears first, with the mean of its confidences
Resolved(window) ==
    LET classes == {window[i][1] : i \in 1 .. Len(window)}
        winners == {g \in classes :
                       \A h \in classes : RLe(ScoreIn(window, h),
                                               ScoreIn(window, g))}
        winner == CHOOSE g \in winners :
                      \A h \in winners : FirstAt(window, g) <= FirstAt(window, h)
        count == Cardinality({i \in 1 .. Len(window) : window[i][1] = winner})
    IN  IF \A g \in classes : ScoreIn(window, g) = RInt(0)
        THEN <<"none", RInt(0)>>
        ELSE <<winner, RDiv(ScoreIn(window, winner), RInt(count))>>

\* C39 (SpecTie): the stabilized output is a function of the window alone;
\* of two classes of equal greatest score the one whose oldest entry in the
\* window is earliest wins; and the classification of a frame is, of the
\* detectors of equal greatest confidence, the first in evaluation order.
C39_TieBreak ==
    (op = "recognize_gesture" /\ LandmarkCount(hand) = 21) =>
        /\ ret = Resolved(gesture_history)
        /\ LET items == DetectAll(hand)
               first == CHOOSE i \in 1 .. Len(items) :
                          /\ \A j \in 1 .. Len(items) :
                                RLe(items[j][2], items[i][2])
                          /\ \A j \in 1 .. i - 1 :
                                RLt(items[j][2], items[i][2])
           IN  RLe(<<1, 2>>, items[first][2]) =>
                  gesture_history[Len(gesture_history)] = items[first]

\* two_finger_scroll and index_extended both score 1.8; the scroll entered
\* the window first and wins although the newest frame is index_extended
C39_Witness ==
    /\ op = "recognize_gesture"
    /\ gesture_history =
          << <<"two_finger_scroll", <<9, 10>>>>,
             <<"index_extended", <<9, 10>>>>,
             <<"two_finger_scroll", <<9, 10>>>>,
             <<"index_extended", <<9, 10>>>> >>
    /\ ret = <<"two_finger_scroll", <<9, 10>>>>

\* the classes execute_gesture_action has no branch for
InertClasses == {"three_finger_close", "three_finger_spread", "thumb_down"}

====
